---------------------------- MODULE Spec2Model ----------------------------
(***************************************************************************)
(* A model of the genome sequence codec of DeGene                          *)
(* (src/src/genomics/compression.py): GenomeCompressor.compress with its   *)
(* chunk worker pool, GenomeCompressor.decompress, and the pure functions  *)
(* they are built from.                                                    *)
(*                                                                         *)
(* Representation.  A Python str is a sequence of one-character strings,   *)
(* a bytes object is a sequence of integers 0..255, a bit string (the      *)
(* '0'/'1' text built by _encode_sequence) is a sequence of 0/1.  A 32-bit *)
(* unsigned value (CRC-32) is the pair <<high 16 bits, low 16 bits>>.      *)
(* A float that the code obtains as a quotient is the record [num, den].   *)
(***************************************************************************)
EXTENDS Integers, Sequences, FiniteSets

(***************************************************************************)
(* Program constants                                                       *)
(***************************************************************************)
\* GenomeCompressor.__init__: self.quality_threshold = 30
quality_threshold == 30
\* GenomeCompressor.__init__: self.min_pattern_length = 8
min_pattern_length == 8
\* GenomeCompressor.__init__: self.max_pattern_length = 32
max_pattern_length == 32
\* _validate_sequence: if len(sequence) < 100: return False
MinSequenceLength == 100

(***************************************************************************)
(* Generic helpers on sequences and integers                               *)
(***************************************************************************)
Min(a, b) == IF a <= b THEN a ELSE b

\* Python slice xs[lo:hi] for 0 <= lo, 0 <= hi (indices clamp to len(xs))
Slice(xs, lo, hi) == SubSeq(xs, Min(lo, Len(xs)) + 1, Min(hi, Len(xs)))

RECURSIVE ConcatRange(_, _, _)
\* xss[lo] \o ... \o xss[hi], halving the range to keep the evaluation shallow
ConcatRange(xss, lo, hi) ==
    IF lo > hi THEN <<>>
    ELSE IF lo = hi THEN xss[lo]
    ELSE ConcatRange(xss, lo, (lo + hi) \div 2)
         \o ConcatRange(xss, ((lo + hi) \div 2) + 1, hi)

\* b''.join(list) / ''.join(list)
Concat(xss) == ConcatRange(xss, 1, Len(xss))

\* Python unit * k
Rep(unit, k) ==
    [j \in 1..(IF k <= 0 THEN 0 ELSE k * Len(unit)) |->
        unit[((j - 1) % Len(unit)) + 1]]

\* bitwise exclusive or of two numbers of 4 bits: entry a + 1 of the table
\* holds a ^ 0, ..., a ^ 15
XorTable ==
    LET bit(a, b, k) == (((a \div k) % 2) + ((b \div k) % 2)) % 2
    IN  SubSeq([i \in 1..16 |->
                   SubSeq([j \in 1..16 |->
                              bit(i - 1, j - 1, 1) + 2 * bit(i - 1, j - 1, 2)
                              + 4 * bit(i - 1, j - 1, 4)
                              + 8 * bit(i - 1, j - 1, 8)],
                          1, 16)],
               1, 16)

RECURSIVE Xor(_, _)
\* bitwise exclusive or of two naturals, 4 bits at a time
Xor(a, b) ==
    IF a = 0 THEN b
    ELSE IF b = 0 THEN a
    ELSE XorTable[(a % 16) + 1][(b % 16) + 1] + 16 * Xor(a \div 16, b \div 16)

\* the 8 bits of a byte, most significant first: format(v, '08b')
Bits8(v) == [k \in 1..8 |-> (v \div (2 ^ (8 - k))) % 2]

(***************************************************************************)
(* Characters                                                              *)
(***************************************************************************)
\* str.upper() on one character
UpperChar(c) ==
    CASE c = "a" -> "A" [] c = "c" -> "C" [] c = "g" -> "G"
      [] c = "t" -> "T" [] c = "n" -> "N" [] c = "x" -> "X"
      [] OTHER -> c

\* str.upper()
Upper(s) == [k \in 1..Len(s) |-> UpperChar(s[k])]


(***************************************************************************)
(* QualityEstimator, NucleotideEncoder, error-rate estimator               *)
(***************************************************************************)
\* a faulty variant of _calculate_quality_scores: the two bonuses are swapped
QualityScoresSwapped(sequence) ==
    [i \in 1..Len(sequence) |->
        Min(30 + (IF i > 1 /\ sequence[i] = sequence[i - 1] THEN 3 ELSE 0)
               + (IF i > 2 /\ sequence[i] = sequence[i - 2] THEN 5 ELSE 0),
            40)]

\* GenomeCompressor._calculate_quality_scores: 30, +5 if the symbol equals its
\* predecessor, +3 if it equals the symbol two places back, capped at 40
_calculate_quality_scores(sequence) ==
    [i \in 1..Len(sequence) |->
        Min(30 + (IF i > 1 /\ sequence[i] = sequence[i - 1] THEN 5 ELSE 0)
               + (IF i > 2 /\ sequence[i] = sequence[i - 2] THEN 3 ELSE 0),
            40)]

\* a faulty variant of BaseBits: a symbol without a code gets 11
BaseBitsDefaultT(base) ==
    CASE base = "A" -> <<0, 0>> [] base = "C" -> <<0, 1>>
      [] base = "G" -> <<1, 0>> [] OTHER -> <<1, 1>>

\* a faulty variant of BaseBits: G has no code of its own and gets the default
BaseBitsWithoutG(base) ==
    CASE base = "C" -> <<0, 1>> [] base = "T" -> <<1, 1>>
      [] OTHER -> <<0, 0>>

\* encoding.get(base, '00') with encoding = {'A':'00','C':'01','G':'10','T':'11'}
BaseBits(base) ==
    CASE base = "A" -> <<0, 0>> [] base = "C" -> <<0, 1>>
      [] base = "G" -> <<1, 0>> [] base = "T" -> <<1, 1>>
      [] OTHER -> <<0, 0>>

\* int(bits, 2).to_bytes((len(bits) + 7) // 8, byteorder='big'): the value is
\* right-aligned in the buffer, so the zero fill is at the high-order end of
\* the first byte (bits is non-empty: int('', 2) raises)
IntToBytes(bits) ==
    LET nbytes == (Len(bits) + 7) \div 8
        pad    == 8 * nbytes - Len(bits)
        bit(j) == IF j <= pad THEN 0 ELSE bits[j - pad]
    IN  [k \in 1..nbytes |->
            bit(8 * k - 7) * 128 + bit(8 * k - 6) * 64 + bit(8 * k - 5) * 32
            + bit(8 * k - 4) * 16 + bit(8 * k - 3) * 8 + bit(8 * k - 2) * 4
            + bit(8 * k - 1) * 2 + bit(8 * k)]

\* GenomeCompressor._encode_sequence: the base codes are taken from
\* sequence.upper(), the quality scores from the sequence as given
_encode_sequence(sequence) ==
    LET up             == Upper(sequence)
        binary         == Concat([k \in 1..Len(up) |-> BaseBits(up[k])])
        quality_scores == _calculate_quality_scores(sequence)
        quality_binary == Concat([k \in 1..Len(quality_scores) |->
                                     Bits8(quality_scores[k])])
        combined       == binary \o quality_binary
    IN  IntToBytes(combined)

\* GenomeCompressor._calculate_error_rate: errors / len(sequence) with
\* errors = 1 per symbol not in 'ACGT' and 0.1 per symbol equal to its
\* predecessor; kept exact as [num, den] = (10 * n1 + n2) / (10 * len)
_calculate_error_rate(sequence) ==
    LET n1 == Cardinality({i \in 1..Len(sequence) :
                              sequence[i] \notin {"A", "C", "G", "T"}})
        n2 == Cardinality({i \in 2..Len(sequence) :
                              sequence[i] = sequence[i - 1]})
    IN  [num |-> 10 * n1 + n2, den |-> 10 * Len(sequence)]

(***************************************************************************)
(* PatternDetector                                                         *)
(***************************************************************************)
\* sequence[i:i + length] with i counted from 0
Window(sequence, i, length) == SubSeq(sequence, i + 1, i + length)

\* the 0-based starts at which pattern occurs in sequence, in increasing
\* order
Occurrences(sequence, pattern) ==
    SelectSeq([n \in 1..(Len(sequence) - Len(pattern) + 1) |-> n - 1],
              LAMBDA j : /\ sequence[j + 1] = pattern[1]
                         /\ Window(sequence, j, Len(pattern)) = pattern)

\* sequence.count(pattern) for a non-empty pattern: str.count scans left to
\* right and resumes after each match, so it counts non-overlapping
\* occurrences.  The starts are gone through in increasing order, st being
\* <<the position the scan resumes at, the matches counted>>
StrCount(sequence, pattern) ==
    LET length == Len(pattern)
        occ == Occurrences(sequence, pattern)
        scan[lo \in Nat, hi \in Nat, st \in Nat \X Nat] ==
            IF lo > hi THEN st
            ELSE IF lo = hi
            THEN IF occ[lo] >= st[1] THEN <<occ[lo] + length, st[2] + 1>>
                 ELSE st
            ELSE scan[((lo + hi) \div 2) + 1, hi,
                      scan[lo, (lo + hi) \div 2, st]]
    IN  scan[1, Len(occ), <<0, 0>>][2]

\* the windows of one length for which `sequence.count(pattern) > 1` holds;
\* the count depends on the window's text only, so it is taken once for
\* each distinct text
RepeatedWindows(sequence, length) ==
    LET texts == {Window(sequence, i, length) :
                     i \in 0..(Len(sequence) - length - 1)}
    IN  {pattern : pattern \in {text \in texts :
                                   StrCount(sequence, text) > 1}}

\* the starts i in range(len(sequence) - length) recorded for window length
\* `length`: those whose window occurs more than once (str.count > 1)
RecordedStarts(sequence, length) ==
    LET repeated == RepeatedWindows(sequence, length)
    IN  {i \in 0..(Len(sequence) - length - 1) :
            Window(sequence, i, length) \in repeated}

\* the list recorded under pattern: the recorded starts of its length at
\* which it is the window, in the increasing order they are appended in
Positions(sequence, pattern, starts) ==
    SelectSeq([n \in 1..Len(sequence) |-> n - 1],
              LAMBDA i : /\ i \in starts
                         /\ Window(sequence, i, Len(pattern)) = pattern)

\* the entries <<pattern, positions>> the inner loop of _find_patterns
\* leaves for one window length
PatternsOfLength(sequence, length) ==
    LET starts == RecordedStarts(sequence, length)
    IN  {<<pattern, Positions(sequence, pattern, starts)>> :
            pattern \in {Window(sequence, i, length) : i \in starts}}

\* a faulty variant of _find_patterns: every recorded substring is kept,
\* however few starts were recorded under it
FindPatternsUnfiltered(sequence) ==
    LET entries == UNION {PatternsOfLength(sequence, length) :
                             length \in min_pattern_length..max_pattern_length}
    IN  [pattern \in {e[1] : e \in entries} |->
            (CHOOSE e \in entries : e[1] = pattern)[2]]

\* GenomeCompressor._find_patterns: a dict pattern -> list of starts, kept
\* only where more than 2 starts were recorded
_find_patterns(sequence) ==
    LET entries == UNION {PatternsOfLength(sequence, length) :
                             length \in min_pattern_length..max_pattern_length}
        kept    == {e \in entries : Len(e[2]) > 2}
    IN  [pattern \in {e[1] : e \in kept} |->
            (CHOOSE e \in kept : e[1] = pattern)[2]]

\* a faulty variant of SumLens: the patterns are counted, not their positions
CountKeys(patterns) == Cardinality(DOMAIN patterns)

\* sum(len(positions) for positions in patterns.values()): each list of n
\* positions adds n, so the lists are counted by their length
SumLens(patterns) ==
    LET keys  == DOMAIN patterns
        sizes == {Len(patterns[pattern]) : pattern \in keys}
        most  == IF sizes = {} THEN 0
                 ELSE CHOOSE n \in sizes : \A other \in sizes : other <= n
        add[lo \in Nat, hi \in Nat] ==
            IF lo > hi THEN 0
            ELSE IF lo = hi
            THEN IF lo \in sizes
                 THEN lo * Cardinality({pattern \in keys :
                                           Len(patterns[pattern]) = lo})
                 ELSE 0
            ELSE add[lo, (lo + hi) \div 2] + add[((lo + hi) \div 2) + 1, hi]
    IN  add[1, most]

\* GenomeCompressor._is_highly_repetitive: total_repeats > len(sequence) * 0.3
_is_highly_repetitive(sequence) ==
    LET patterns      == _find_patterns(sequence)
        total_repeats == SumLens(patterns)
    IN  10 * total_repeats > 3 * Len(sequence)


(***************************************************************************)
(* zlib.crc32                                                              *)
(***************************************************************************)
\* one bit of the reflected CRC-32 (polynomial 0xEDB88320) on <<hi, lo>>
CrcShift(c) ==
    LET hi == c[1] \div 2
        lo == (c[2] \div 2) + (c[1] % 2) * 32768
    IN  IF c[2] % 2 = 1 THEN <<Xor(hi, 60856), Xor(lo, 33568)>>
        ELSE <<hi, lo>>

\* the CRC-32 byte table: 8 shifts of each byte value
CrcTable ==
    [n \in 0..255 |->
        CrcShift(CrcShift(CrcShift(CrcShift(
        CrcShift(CrcShift(CrcShift(CrcShift(<<0, n>>))))))))]

\* the CRC register c after one more byte b
CrcByte(c, b) ==
    LET t == CrcTable[Xor(c[2] % 256, b)]
    IN  <<Xor(t[1], c[1] \div 256),
          Xor(t[2], (c[2] \div 256) + (c[1] % 256) * 256)>>

\* the CRC register after the bytes of data, taken in order from register
\* c0 (reg[lo, hi, c] is c after bytes lo..hi; the range is halved to keep
\* the evaluation shallow)
CrcFold(data, c0) ==
    LET reg[lo \in Nat, hi \in Nat, c \in Nat \X Nat] ==
            IF lo > hi THEN c
            ELSE IF lo = hi THEN CrcByte(c, data[lo])
            ELSE reg[((lo + hi) \div 2) + 1, hi, reg[lo, (lo + hi) \div 2, c]]
    IN  reg[1, Len(data), c0]

\* zlib.crc32(data): the unsigned 32-bit value as <<high 16 bits, low 16 bits>>
crc32(data) ==
    LET c == CrcFold(data, <<65535, 65535>>)
    IN  <<65535 - c[1], 65535 - c[2]>>

(***************************************************************************)
(* zlib.compress / zlib.decompress (RFC 1950 container, RFC 1951 payload)  *)
(***************************************************************************)
\* the Adler-32 of data as the 4 bytes of the stream trailer (big-endian):
\* the two sums <<a, b>> after the bytes of data, taken in order from
\* <<1, 0>> (sums[lo, hi, ab] is ab after bytes lo..hi; the range is halved
\* to keep the evaluation shallow)
adler32(data) ==
    LET sums[lo \in Nat, hi \in Nat, ab \in Nat \X Nat] ==
            IF lo > hi THEN ab
            ELSE IF lo = hi
            THEN <<(ab[1] + data[lo]) % 65521,
                   (ab[2] + ((ab[1] + data[lo]) % 65521)) % 65521>>
            ELSE sums[((lo + hi) \div 2) + 1, hi, sums[lo, (lo + hi) \div 2, ab]]
        ab == sums[1, Len(data), <<1, 0>>]
    IN  <<ab[2] \div 256, ab[2] % 256, ab[1] \div 256, ab[1] % 256>>

\* DEFLATE's length codes 257..285: the least length of each, and the number
\* of extra bits that follow the code (RFC 1951, 3.2.5)
LengthBase ==
    <<3, 4, 5, 6, 7, 8, 9, 10, 11, 13, 15, 17, 19, 23, 27, 31, 35, 43, 51, 59,
      67, 83, 99, 115, 131, 163, 195, 227, 258>>

LengthExtra ==
    <<0, 0, 0, 0, 0, 0, 0, 0, 1, 1, 1, 1, 2, 2, 2, 2, 3, 3, 3, 3,
      4, 4, 4, 4, 5, 5, 5, 5, 0>>

\* DEFLATE's distance codes 0..29: least distance and number of extra bits
DistBase ==
    <<1, 2, 3, 4, 5, 7, 9, 13, 17, 25, 33, 49, 65, 97, 129, 193, 257, 385,
      513, 769, 1025, 1537, 2049, 3073, 4097, 6145, 8193, 12289, 16385, 24577>>

DistExtra ==
    <<0, 0, 0, 0, 1, 1, 2, 2, 3, 3, 4, 4, 5, 5, 6, 6, 7, 7, 8, 8,
      9, 9, 10, 10, 11, 11, 12, 12, 13, 13>>

\* the greatest element of a non-empty finite set of integers
Max(S) == CHOOSE x \in S : \A y \in S : y <= x

\* how many bytes data has in common from the 0-based positions q and s on,
\* counting at most lim (found by bisection: agreeing on k bytes is monotone)
CommonPrefix(data, q, s, lim) ==
    LET agree(k) == SubSeq(data, q + 1, q + k) = SubSeq(data, s + 1, s + k)
        most[lo \in Nat, hi \in Nat] ==
            IF lo = hi THEN lo
            ELSE IF agree((lo + hi + 1) \div 2)
                 THEN most[(lo + hi + 1) \div 2, hi]
                 ELSE most[lo, ((lo + hi + 1) \div 2) - 1]
    IN  most[0, lim]

\* the hash deflate files each string of 3 bytes under (INSERT_STRING with
\* hash_bits = 15 and hash_shift = 5): entry q + 1, for the string at the
\* 0-based position q, is ((b1 << 10) ^ (b2 << 5) ^ b3) & 0x7fff.  Strings
\* that differ can have one hash and are then on one hash chain.
StringHashes(data) ==
    IF Len(data) < 3 THEN <<>>
    ELSE SubSeq([p \in 1..(Len(data) - 2) |->
                    Xor(Xor((data[p] * 1024) % 32768, data[p + 1] * 32),
                        data[p + 2])],
                1, Len(data) - 2)

\* deflate's longest_match at 0-based position s: <<length, start>> of the
\* longest earlier occurrence of what follows s among the positions it
\* walks, the nearest one among the longest; <<0, 0>> if none of 3 bytes or
\* more.  It walks the hash chain of s from the nearest position back:
\* the positions filed under the hash of s, at most chain_length of them,
\* the first no more than MAX_DIST = 32768 - 262 bytes back and the others
\* less than that.  Position 0 is never walked: the chains use 0 for "no
\* position".
LongestMatch(data, hashes, s, lim, chain_length) ==
    LET same(q) == hashes[q + 1] = hashes[s + 1]
        walked(near) ==
            IF near # <<>> THEN SubSeq(near, 1, Min(chain_length, Len(near)))
            ELSE IF s > 32506 /\ same(s - 32506) THEN <<s - 32506>>
            ELSE <<>>
        matches(walk) ==
            {<<CommonPrefix(data, walk[i], s, lim), walk[i]>> :
                i \in 1..Len(walk)}
        longest(found, best) ==
            IF best < 3 THEN <<0, 0>>
            ELSE <<best, Max({f[2] : f \in {g \in found : g[1] = best}})>>
        chosen(found) == longest(found, Max({0} \cup {f[1] : f \in found}))
    IN  chosen(matches(walked(
            IF s < 2 THEN <<>>
            ELSE SelectSeq([k \in 1..Min(s - 1, 32505) |-> s - k], same))))

\* one turn of deflate's lazy matcher (deflate_slow, level 9: good_length =
\* 32, max_lazy = nice_length = 258, max_chain = 4096).  Its state st holds
\* the position s, the match found at the position before (length ml from
\* ms), whether the byte before s is still to be written, and the tokens
\* written: <<0, byte, 0>> for a literal, <<1, length, distance>> for a
\* match.  hashes is what StringHashes gives for data.  found is the
\* longest match at st.s (<<0, 0>> if there is none or none is looked for);
\* a quarter of the chain is walked when the match before has good_length
\* bytes or more.  A match of the least length, 3, that starts more than
\* TOO_FAR = 4096 bytes back is not taken (the length counts as 2).
DeflateStep(data, hashes, st) ==
    LET look == Len(data) - st.s
        next(ms, ml) ==
            IF st.s >= Len(data) THEN st
            ELSE IF st.ml >= 3 /\ ml <= st.ml
            THEN [s |-> st.s + st.ml - 1, ml |-> 2, ms |-> ms,
                  avail |-> FALSE,
                  out |-> Append(st.out, <<1, st.ml, st.s - 1 - st.ms>>)]
            ELSE IF st.avail
            THEN [s |-> st.s + 1, ml |-> ml, ms |-> ms, avail |-> TRUE,
                  out |-> Append(st.out, <<0, data[st.s], 0>>)]
            ELSE [s |-> st.s + 1, ml |-> ml, ms |-> ms, avail |-> TRUE,
                  out |-> st.out]
        lazy(ms, best) ==
            next(ms, IF look >= 3 /\ st.ml < 258
                     THEN (IF best = 3 /\ st.s - ms > 4096 THEN 2 ELSE best)
                     ELSE 2)
        taken(found) ==
            IF found[1] > st.ml THEN lazy(found[2], found[1])
            ELSE lazy(st.ms, st.ml)
    IN  taken(IF look >= 3 /\ st.ml < 258
              THEN LongestMatch(data, hashes, st.s, Min(258, look),
                                IF st.ml >= 32 THEN 1024 ELSE 4096)
              ELSE <<0, 0>>)

\* the literals and matches deflate (level 9) turns data into: the loop is
\* run to the end of data (it takes at most one turn per byte), and the
\* byte still to be written after it is written as a literal
DeflateTokens(data) ==
    LET hashes == StringHashes(data)
        run[lo \in Nat, hi \in Nat,
            st \in [s : Nat, ml : Nat, ms : Nat, avail : BOOLEAN,
                    out : Seq(Nat \X Nat \X Nat)]] ==
            IF lo > hi THEN st
            ELSE IF lo = hi THEN DeflateStep(data, hashes, st)
            ELSE run[((lo + hi) \div 2) + 1, hi, run[lo, (lo + hi) \div 2, st]]
        end == run[1, Len(data),
                   [s |-> 0, ml |-> 2, ms |-> 0, avail |-> FALSE,
                    out |-> <<>>]]
    IN  IF end.avail THEN Append(end.out, <<0, data[Len(data)], 0>>)
        ELSE end.out

\* a Huffman code of n bits, first bit first
CodeBits(v, n) == [i \in 1..n |-> (v \div (2 ^ (n - i))) % 2]

\* a field of n extra bits, least significant bit first
ExtraBits(v, n) == [i \in 1..n |-> (v \div (2 ^ (i - 1))) % 2]

\* the fixed Huffman code of a literal/length symbol 0..287 (RFC 1951, 3.2.6)
FixedCode(sym) ==
    IF sym <= 143 THEN CodeBits(48 + sym, 8)
    ELSE IF sym <= 255 THEN CodeBits(400 + (sym - 144), 9)
    ELSE IF sym <= 279 THEN CodeBits(sym - 256, 7)
    ELSE CodeBits(192 + (sym - 280), 8)

\* the bits of one token: a literal's code, or the code of the length
\* symbol, the length's extra bits, the code of the distance symbol and the
\* distance's extra bits; ltree and dtree give the code of a literal/length
\* symbol and of a distance symbol
TokenBits(token, ltree, dtree) ==
    IF token[1] = 0 THEN ltree[token[2]]
    ELSE LET k == Max({i \in 1..29 : LengthBase[i] <= token[2]})
             j == Max({i \in 1..30 : DistBase[i] <= token[3]})
         IN  ltree[256 + k]
             \o ExtraBits(token[2] - LengthBase[k], LengthExtra[k])
             \o dtree[j - 1]
             \o ExtraBits(token[3] - DistBase[j], DistExtra[j])

\* a bit sequence as bytes, the first bit in the least significant place of
\* the first byte, zero bits filling the last byte
PackBits(bits) ==
    LET bit(j) == IF j <= Len(bits) THEN bits[j] ELSE 0
    IN  [k \in 1..((Len(bits) + 7) \div 8) |->
            bit(8 * k - 7) + bit(8 * k - 6) * 2 + bit(8 * k - 5) * 4
            + bit(8 * k - 4) * 8 + bit(8 * k - 3) * 16 + bit(8 * k - 2) * 32
            + bit(8 * k - 1) * 64 + bit(8 * k) * 128]

\* the tokens as one final fixed-Huffman block: BFINAL = 1, BTYPE = 01, the
\* tokens, the end-of-block symbol 256; a distance symbol is written as 5
\* bits
FixedBlock(tokens) ==
    LET ltree == [sym \in 0..287 |-> FixedCode(sym)]
        dtree == [sym \in 0..29 |-> CodeBits(sym, 5)]
    IN  PackBits(<<1, 1, 0>>
                 \o Concat([k \in 1..Len(tokens) |->
                               TokenBits(tokens[k], ltree, dtree)])
                 \o FixedCode(256))

\* build_tree and gen_bitlen of zlib's trees.c: the code lengths of the
\* Huffman tree deflate builds for the symbol frequencies freq (symbol n at
\* index n + 1), no length above max_length; the result holds the lengths
\* of the symbols 0..max_code.  The symbols in use go on a heap ordered by
\* frequency and, among equals, by subtree depth; one or two symbols are
\* put in use with frequency 1 where fewer than two are; the two least
\* nodes are joined until one is left.  A node (st) below elems is a symbol,
\* the others are the joined nodes in the order they were made.
HuffmanLengths(freq, max_length) ==
    LET elems == Len(freq)
        inUse(n) == freq[n + 1] # 0
        used == SelectSeq([i \in 1..elems |-> i - 1], inUse)
        top == IF used = <<>> THEN -1 ELSE used[Len(used)]
        heap0 == IF Len(used) >= 2 THEN used
                 ELSE IF Len(used) = 0 THEN <<0, 1>>
                 ELSE Append(used, IF top < 2 THEN top + 1 ELSE 0)
        max_code == IF Len(used) = 0 THEN 1
                    ELSE IF Len(used) = 1 /\ top < 2 THEN top + 1
                    ELSE top
        Freq(st, n) == IF n >= elems THEN st.freq[n - elems + 1]
                       ELSE IF freq[n + 1] = 0 THEN 1 ELSE freq[n + 1]
        Depth(st, n) == IF n >= elems THEN st.depth[n - elems + 1] ELSE 0
        smaller(st, n, m) ==
            \/ Freq(st, n) < Freq(st, m)
            \/ Freq(st, n) = Freq(st, m) /\ Depth(st, n) <= Depth(st, m)
        RECURSIVE pqdownheap(_, _, _, _)
        pqdownheap(st, heap, k, v) ==
            LET j == IF 2 * k < Len(heap)
                        /\ smaller(st, heap[2 * k + 1], heap[2 * k])
                     THEN 2 * k + 1 ELSE 2 * k
            IN  IF 2 * k > Len(heap) \/ smaller(st, v, heap[j])
                THEN [heap EXCEPT ![k] = v]
                ELSE pqdownheap(st, [heap EXCEPT ![k] = heap[j]], j, v)
        none == [freq |-> <<>>, depth |-> <<>>]
        heapify[lo \in Nat, hi \in Nat, heap \in Seq(Nat)] ==
            IF lo > hi THEN heap
            ELSE IF lo = hi THEN pqdownheap(none, heap, lo, heap[lo])
            ELSE heapify[lo, (lo + hi) \div 2,
                         heapify[((lo + hi) \div 2) + 1, hi, heap]]
        join(st) ==
            LET n    == st.heap[1]
                rest == pqdownheap(st, SubSeq(st.heap, 1, Len(st.heap) - 1),
                                   1, st.heap[Len(st.heap)])
                m    == rest[1]
                dn   == Depth(st, n)
                dm   == Depth(st, m)
                made == [freq  |-> Append(st.freq, Freq(st, n) + Freq(st, m)),
                         depth |-> Append(st.depth,
                                          (IF dn >= dm THEN dn ELSE dm) + 1)]
            IN  [freq  |-> made.freq,
                 depth |-> made.depth,
                 kids  |-> Append(st.kids, <<n, m>>),
                 order |-> st.order \o <<n, m>>,
                 heap  |-> pqdownheap(made, rest, 1, elems + Len(st.kids))]
        joins[lo \in Nat, hi \in Nat,
              st \in [freq : Seq(Nat), depth : Seq(Nat),
                      kids : Seq(Nat \X Nat), order : Seq(Nat),
                      heap : Seq(Nat)]] ==
            IF lo > hi THEN st
            ELSE IF lo = hi THEN join(st)
            ELSE joins[((lo + hi) \div 2) + 1, hi,
                       joins[lo, (lo + hi) \div 2, st]]
        place(s, x, bits) ==
            LET len == IF bits > max_length THEN max_length ELSE bits
                t   == [s EXCEPT !.overflow =
                           IF bits > max_length THEN @ + 1 ELSE @]
            IN  IF x >= elems THEN [t EXCEPT !.inner[x - elems + 1] = len]
                ELSE [t EXCEPT !.len[x + 1] = len]
        RECURSIVE moved(_, _)
        moved(bl_count, overflow) ==
            IF overflow <= 0 THEN bl_count
            ELSE LET bits == Max({b \in 1..(max_length - 1) : bl_count[b] # 0})
                 IN  moved([bl_count EXCEPT ![bits] = @ - 1,
                                            ![bits + 1] = @ + 2,
                                            ![max_length] = @ - 1],
                           overflow - 2)
        isLeaf(x) == x < elems
        reassign(leaves, bl_count) ==
            LET atLeast(b) ==
                    Cardinality({<<c, i>> \in (b..max_length) \X (1..elems) :
                                    i <= bl_count[c]})
                final(n) ==
                    IF n \notin {leaves[p] : p \in 1..Len(leaves)} THEN 0
                    ELSE LET p == CHOOSE q \in 1..Len(leaves) : leaves[q] = n
                         IN  Max({b \in 1..max_length : atLeast(b) >= p})
            IN  [i \in 1..(max_code + 1) |-> final(i - 1)]
        limit(leaves, first) ==
            IF first.overflow = 0 THEN first.len
            ELSE reassign(leaves,
                     moved([b \in 1..max_length |->
                               Cardinality({p \in 1..Len(leaves) :
                                   first.len[leaves[p] + 1] = b})],
                           first.overflow))
        lengths(tree) ==
            LET descend[lo \in Nat, hi \in Nat,
                        s \in [inner : Seq(Nat), len : Seq(Nat),
                               overflow : Nat]] ==
                    IF lo > hi THEN s
                    ELSE IF lo = hi
                    THEN place(place(s, tree.kids[lo][1], s.inner[lo] + 1),
                               tree.kids[lo][2], s.inner[lo] + 1)
                    ELSE descend[lo, (lo + hi) \div 2,
                                 descend[((lo + hi) \div 2) + 1, hi, s]]
            IN  limit(SelectSeq(tree.order, isLeaf),
                      descend[1, Len(tree.kids),
                              [inner |-> [k \in 1..Len(tree.kids) |-> 0],
                               len |-> [n \in 1..(max_code + 1) |-> 0],
                               overflow |-> 0]])
    IN  lengths(joins[1, Len(heap0) - 1,
                      [freq |-> <<>>, depth |-> <<>>, kids |-> <<>>,
                       order |-> <<>>,
                       heap |-> heapify[1, Len(heap0) \div 2, heap0]]])

\* gen_codes: the code of each symbol as a number, for code lengths len:
\* codes of one length are consecutive in symbol order and start where the
\* codes of the length before, doubled, end
HuffmanCodes(len) ==
    LET count(b) == Cardinality({i \in 1..Len(len) : len[i] = b})
        next_code[b \in 0..15] ==
            IF b = 0 THEN 0 ELSE 2 * (next_code[b - 1] + (IF b = 1 THEN 0 ELSE count(b - 1)))
    IN  SubSeq([i \in 1..Len(len) |->
                   IF len[i] = 0 THEN 0
                   ELSE next_code[len[i]]
                        + Cardinality({j \in 1..(i - 1) : len[j] = len[i]})],
               1, Len(len))

\* scan_tree and send_tree: the code lengths len (of the symbols 0 to
\* max_code) as items <<code length symbol, extra value, extra bits>>: a
\* length itself (0..15), or a repeat of the length before 3 to 6 times
\* (16), or a run of 3 to 10 zeros (17) or of 11 to 138 zeros (18)
TreeItems(len) ==
    LET max_code == Len(len) - 1
        limits(curlen, nextlen) ==
            IF nextlen = 0 THEN <<138, 3>>
            ELSE IF curlen = nextlen THEN <<6, 3>>
            ELSE <<7, 4>>
        sent(st, curlen, count) ==
            IF count < st.limits[2]
            THEN [k \in 1..count |-> <<curlen, 0, 0>>]
            ELSE IF curlen # 0
            THEN IF curlen # st.prevlen
                 THEN <<<<curlen, 0, 0>>, <<16, count - 4, 2>>>>
                 ELSE <<<<16, count - 3, 2>>>>
            ELSE IF count <= 10 THEN <<<<17, count - 3, 3>>>>
            ELSE <<<<18, count - 11, 7>>>>
        step(st, n) ==
            LET curlen  == len[n + 1]
                nextlen == IF n = max_code THEN 65535 ELSE len[n + 2]
            IN  IF st.count + 1 < st.limits[1] /\ curlen = nextlen
                THEN [st EXCEPT !.count = @ + 1]
                ELSE [count   |-> 0,
                      prevlen |-> curlen,
                      limits  |-> limits(curlen, nextlen),
                      out     |-> st.out \o sent(st, curlen, st.count + 1)]
        scan[lo \in Nat, hi \in Nat,
             st \in [count : Nat, prevlen : Int, limits : Nat \X Nat,
                     out : Seq(Nat \X Nat \X Nat)]] ==
            IF lo > hi THEN st
            ELSE IF lo = hi THEN step(st, lo)
            ELSE scan[((lo + hi) \div 2) + 1, hi,
                      scan[lo, (lo + hi) \div 2, st]]
    IN  scan[0, max_code,
             [count |-> 0, prevlen |-> -1, limits |-> limits(-1, len[1]),
              out |-> <<>>]].out

\* the tokens as one final dynamic-Huffman block (send_all_trees and
\* compress_block): BFINAL = 1, BTYPE = 10, the numbers of literal/length
\* codes, distance codes and code length codes, the lengths of the code
\* length codes in bl_order, the lengths of the two codes as items, the
\* tokens, the end-of-block symbol 256.  The codes are those of the trees
\* built for the frequencies of the block's symbols, symbol 256 counted
\* once.
DynamicBlock(tokens) ==
    LET count == Len(tokens)
        lsym == SubSeq([k \in 1..count |->
                           IF tokens[k][1] = 0 THEN tokens[k][2]
                           ELSE 256 + Max({i \in 1..29 :
                                             LengthBase[i] <= tokens[k][2]})],
                       1, count)
        dsym == SubSeq([k \in 1..count |->
                           IF tokens[k][1] = 0 THEN -1
                           ELSE Max({i \in 1..30 :
                                       DistBase[i] <= tokens[k][3]}) - 1],
                       1, count)
        times(syms, n) == Cardinality({k \in 1..Len(syms) : syms[k] = n})
        bl_order == <<16, 17, 18, 0, 8, 7, 9, 6, 10, 5, 11, 4, 12, 3, 13, 2,
                      14, 1, 15>>
        send(llen, dlen, items, bllen) ==
            LET blcodes == Max({3} \cup {r \in 4..19 :
                                            bllen[bl_order[r] + 1] # 0})
                lcode  == HuffmanCodes(llen)
                dcode  == HuffmanCodes(dlen)
                blcode == HuffmanCodes(bllen)
                ltree  == [sym \in 0..(Len(llen) - 1) |->
                              CodeBits(lcode[sym + 1], llen[sym + 1])]
                dtree  == [sym \in 0..(Len(dlen) - 1) |->
                              CodeBits(dcode[sym + 1], dlen[sym + 1])]
            IN  PackBits(<<1, 0, 1>>
                         \o ExtraBits(Len(llen) - 257, 5)
                         \o ExtraBits(Len(dlen) - 1, 5)
                         \o ExtraBits(blcodes - 4, 4)
                         \o Concat([r \in 1..blcodes |->
                                       ExtraBits(bllen[bl_order[r] + 1], 3)])
                         \o Concat([k \in 1..Len(items) |->
                                       CodeBits(blcode[items[k][1] + 1],
                                                bllen[items[k][1] + 1])
                                       \o ExtraBits(items[k][2], items[k][3])])
                         \o Concat([k \in 1..count |->
                                       TokenBits(tokens[k], ltree, dtree)])
                         \o ltree[256])
        padded(built) ==
            SubSeq([i \in 1..19 |-> IF i <= Len(built) THEN built[i] ELSE 0],
                   1, 19)
        coded(llen, dlen, items) ==
            send(llen, dlen, items,
                 padded(HuffmanLengths(
                            [i \in 1..19 |->
                                Cardinality({k \in 1..Len(items) :
                                                items[k][1] = i - 1})],
                            7)))
        scanned(llen, dlen) ==
            coded(llen, dlen, TreeItems(llen) \o TreeItems(dlen))
    IN  scanned(HuffmanLengths([i \in 1..286 |->
                                   IF i = 257 THEN 1 ELSE times(lsym, i - 1)],
                               15),
                HuffmanLengths([i \in 1..30 |-> times(dsym, i - 1)], 15))

\* _tr_flush_block for the one block of a short buffer: the block deflate
\* writes for data, given its fixed-Huffman and its dynamic-Huffman block.
\* The dynamic block counts unless the fixed one has no more bytes; a
\* stored block (BFINAL = 1, BTYPE = 00, LEN, NLEN, data) is written if
\* the length of data + 4 is no more than that count, else the fixed block
\* if it has that count, else the dynamic block
ChooseBlock(data, fixed, dynamic) ==
    LET opt_lenb == IF Len(fixed) <= Len(dynamic) THEN Len(fixed)
                    ELSE Len(dynamic)
        stored   == <<1, Len(data) % 256, Len(data) \div 256,
                      255 - (Len(data) % 256), 255 - (Len(data) \div 256)>>
                    \o data
    IN  IF Len(data) + 4 <= opt_lenb THEN stored
        ELSE IF Len(fixed) = opt_lenb THEN fixed
        ELSE dynamic

\* zlib.compress(data, level=9) for a buffer deflate writes as one block
\* (shorter than the 32K window, fewer than 16384 literals and matches):
\* the header 0x78 0xDA (deflate, 32K window, highest level), one final
\* block, the Adler-32 of data
zlib_compress(data) ==
    LET tokens == DeflateTokens(data)
    IN  <<120, 218>>
        \o ChooseBlock(data, FixedBlock(tokens), DynamicBlock(tokens))
        \o adler32(data)

\* bit bp (0-based) of the DEFLATE payload of buf, which starts at byte 3
Bit(buf, bp) == (buf[3 + (bp \div 8)] \div (2 ^ (bp % 8))) % 2

\* the n bits from bp as a number, least significant bit first
BitsLsb(buf, bp, n) ==
    LET val[k \in 0..n] ==
            IF k = n THEN 0 ELSE Bit(buf, bp + k) + 2 * val[k + 1]
    IN  val[0]

\* the n bits from bp as a Huffman code, first bit most significant
CodeMsb(buf, bp, n) ==
    LET val[k \in 0..n] ==
            IF k = 0 THEN 0 ELSE 2 * val[k - 1] + Bit(buf, bp + k - 1)
    IN  val[n]

\* the symbol at bit bp under the code whose entries are given, as
\* <<symbol, bits>>; <<0, 0>> if the bits there are no code of it or the
\* input ends inside the code
DynamicSymbol(buf, bp, entries) ==
    LET avail == 8 * (Len(buf) - 2)
        ahead == CodeMsb(buf \o <<0, 0>>, bp, 15)
        hits  == {k \in 1..Len(entries) :
                     /\ bp + entries[k][1] <= avail
                     /\ ahead \div (2 ^ (15 - entries[k][1])) = entries[k][2]}
    IN  IF hits = {} THEN <<0, 0>>
        ELSE LET k == CHOOSE h \in hits : TRUE
             IN  <<entries[k][3], entries[k][1]>>

\* inflate reads what precedes the symbols of a dynamic-Huffman block, from
\* bit at on (inflate's states TABLE, LENLENS and CODELENS): the numbers of
\* literal/length, distance and code length codes, the lengths of the code
\* length codes, and under that code the lengths of the two codes with
\* their repeats.  It is an error if there are more than 286
\* literal/length or 30 distance codes, if a repeat has nothing before it
\* or runs past the end, if the end-of-block symbol has no code, or if a
\* set of lengths is over-subscribed or incomplete (inflate_table), where
\* one code of one bit may stand alone among the literal/length or the
\* distance codes and the distance codes may be none.  Code length codes
\* that are all of length zero give every symbol the length zero, and so
\* no code to the end-of-block symbol
InflateDynamic(buf, st, bfinal, at) ==
    LET avail == 8 * (Len(buf) - 2)
        stop  == [st EXCEPT !.mode = "error"]
        nlen  == BitsLsb(buf, at, 5) + 257
        ndist == BitsLsb(buf, at + 5, 5) + 1
        ncode == BitsLsb(buf, at + 10, 4) + 4
        order == <<16, 17, 18, 0, 8, 7, 9, 6, 10, 5, 11, 4, 12, 3, 13, 2,
                   14, 1, 15>>
        max(len) == Max({0} \cup {len[i] : i \in 1..Len(len)})
        left(len) ==
            LET count(b) == Cardinality({i \in 1..Len(len) : len[i] = b})
                sum[b \in 0..15] ==
                    IF b = 0 THEN 0
                    ELSE sum[b - 1] + count(b) * (2 ^ (15 - b))
            IN  32768 - sum[15]
        fits(room, len, codes) ==
            room >= 0 /\ (room = 0 \/ (~codes /\ max(len) = 1))
        valid(len, codes) == max(len) = 0 \/ fits(left(len), len, codes)
        listed(len, code, syms) ==
            SubSeq([k \in 1..Len(syms) |->
                       <<len[syms[k]], code[syms[k]], syms[k] - 1>>],
                   1, Len(syms))
        entries(len) ==
            LET used(i) == len[i] # 0
            IN  listed(len, HuffmanCodes(len),
                       SelectSeq(SubSeq([i \in 1..Len(len) |-> i],
                                        1, Len(len)), used))
        tables(got) ==
            IF ~got.ok THEN stop
            ELSE IF got.lens[257] = 0 THEN stop
            ELSE IF \/ ~valid(SubSeq(got.lens, 1, nlen), FALSE)
                    \/ ~valid(SubSeq(got.lens, nlen + 1, nlen + ndist), FALSE)
            THEN stop
            ELSE [st EXCEPT
                    !.mode  = "dynamic",
                    !.final = bfinal,
                    !.bp    = got.bp,
                    !.lit   = entries(SubSeq(got.lens, 1, nlen)),
                    !.dist  = entries(SubSeq(got.lens, nlen + 1,
                                             nlen + ndist))]
        codelens(lencode) ==
            LET fail(s) == [s EXCEPT !.ok = FALSE]
                copied(s, after, bits, copy, len) ==
                    IF Len(s.lens) + copy > nlen + ndist THEN fail(s)
                    ELSE [s EXCEPT !.bp = after + bits,
                                   !.lens = @ \o [m \in 1..copy |-> len]]
                repeat(s, after, bits, base, len) ==
                    IF after + bits > avail THEN fail(s)
                    ELSE copied(s, after, bits,
                                base + BitsLsb(buf, after, bits), len)
                act(s, sn) ==
                    IF sn[2] = 0 THEN fail(s)
                    ELSE IF sn[1] < 16
                    THEN [s EXCEPT !.bp = s.bp + sn[2],
                                   !.lens = Append(@, sn[1])]
                    ELSE IF sn[1] = 16
                    THEN IF s.lens = <<>> THEN fail(s)
                         ELSE repeat(s, s.bp + sn[2], 2, 3,
                                     s.lens[Len(s.lens)])
                    ELSE IF sn[1] = 17 THEN repeat(s, s.bp + sn[2], 3, 3, 0)
                    ELSE repeat(s, s.bp + sn[2], 7, 11, 0)
                read[lo \in Nat, hi \in Nat,
                     s \in [lens : Seq(Nat), bp : Nat, ok : BOOLEAN]] ==
                    IF lo > hi \/ ~s.ok \/ Len(s.lens) = nlen + ndist THEN s
                    ELSE IF lo = hi
                    THEN act(s, DynamicSymbol(buf, s.bp, lencode))
                    ELSE read[((lo + hi) \div 2) + 1, hi,
                              read[lo, (lo + hi) \div 2, s]]
            IN  tables(read[1, nlen + ndist,
                            [lens |-> <<>>, bp |-> at + 14 + 3 * ncode,
                             ok |-> TRUE]])
        lenlens(given) ==
            IF max(given) = 0 \/ ~valid(given, TRUE) THEN stop
            ELSE codelens(entries(given))
    IN  IF at + 14 > avail THEN stop
        ELSE IF nlen > 286 \/ ndist > 30 THEN stop
        ELSE IF at + 14 + 3 * ncode > avail THEN stop
        ELSE lenlens(SubSeq([i \in 1..19 |->
                                LET r == CHOOSE q \in 1..19 : order[q] = i - 1
                                IN  IF r <= ncode
                                    THEN BitsLsb(buf, at + 14 + 3 * (r - 1), 3)
                                    ELSE 0], 1, 19))

\* inflate reads a block header (and a stored block whole)
InflateHeader(buf, st) ==
    LET avail == 8 * (Len(buf) - 2)
        stop  == [st EXCEPT !.mode = "error"]
    IN  IF st.bp + 3 > avail THEN stop
        ELSE LET bfinal == Bit(buf, st.bp) = 1
                 btype  == BitsLsb(buf, st.bp + 1, 2)
                 at     == ((st.bp + 3 + 7) \div 8) * 8
                 idx    == 3 + (at \div 8)
             IN  IF btype = 3 THEN stop
                 ELSE IF btype = 2
                 THEN InflateDynamic(buf, st, bfinal, st.bp + 3)
                 ELSE IF btype = 1
                 THEN [st EXCEPT !.mode = "fixed", !.final = bfinal,
                                 !.bp = st.bp + 3]
                 ELSE IF at + 32 > avail THEN stop
                 ELSE LET len  == buf[idx] + 256 * buf[idx + 1]
                          nlen == buf[idx + 2] + 256 * buf[idx + 3]
                      IN  IF len + nlen # 65535 \/ at + 32 + 8 * len > avail
                          THEN stop
                          ELSE [st EXCEPT
                                  !.mode  = IF bfinal THEN "done"
                                            ELSE "header",
                                  !.final = bfinal,
                                  !.bp    = at + 32 + 8 * len,
                                  !.out   = st.out \o SubSeq(buf, idx + 4,
                                                             idx + 3 + len)]

\* the fixed-Huffman literal/length symbol at bit bp as <<symbol, bits>>;
\* <<0, 0>> if the input ends inside the code
FixedSymbol(buf, bp) ==
    LET avail == 8 * (Len(buf) - 2)
    IN  IF bp + 7 > avail THEN <<0, 0>>
        ELSE IF CodeMsb(buf, bp, 7) <= 23
        THEN <<256 + CodeMsb(buf, bp, 7), 7>>
        ELSE IF bp + 8 > avail THEN <<0, 0>>
        ELSE IF CodeMsb(buf, bp, 8) >= 48 /\ CodeMsb(buf, bp, 8) <= 191
        THEN <<CodeMsb(buf, bp, 8) - 48, 8>>
        ELSE IF CodeMsb(buf, bp, 8) >= 192 /\ CodeMsb(buf, bp, 8) <= 199
        THEN <<280 + (CodeMsb(buf, bp, 8) - 192), 8>>
        ELSE IF bp + 9 > avail THEN <<0, 0>>
        ELSE <<144 + (CodeMsb(buf, bp, 9) - 400), 9>>

\* inflate copies len bytes from dist bytes back and goes on at bit bp
InflateCopy(st, len, dist, bp) ==
    IF dist > Len(st.out) THEN [st EXCEPT !.mode = "error"]
    ELSE [st EXCEPT
            !.bp  = bp,
            !.out = st.out \o [m \in 1..len |->
                                  st.out[Len(st.out) - dist + 1
                                         + ((m - 1) % dist)]]]

\* inflate reads the distance that follows length code 256 + k, whose extra
\* bits start at bit bp: a code of 5 bits in a fixed block, a code of the
\* block's distance codes in a dynamic one (30 and 31 are not distance
\* codes)
InflateMatch(buf, st, k, bp) ==
    LET avail == 8 * (Len(buf) - 2)
        dat   == bp + LengthExtra[k]
        dn    == IF st.mode = "fixed"
                 THEN IF dat + 5 > avail THEN <<0, 0>>
                      ELSE <<CodeMsb(buf, dat, 5), 5>>
                 ELSE DynamicSymbol(buf, dat, st.dist)
    IN  IF dat > avail THEN [st EXCEPT !.mode = "error"]
        ELSE IF dn[2] = 0 \/ dn[1] >= 30 THEN [st EXCEPT !.mode = "error"]
        ELSE IF dat + dn[2] + DistExtra[dn[1] + 1] > avail
        THEN [st EXCEPT !.mode = "error"]
        ELSE InflateCopy(st,
                 LengthBase[k] + BitsLsb(buf, bp, LengthExtra[k]),
                 DistBase[dn[1] + 1]
                     + BitsLsb(buf, dat + dn[2], DistExtra[dn[1] + 1]),
                 dat + dn[2] + DistExtra[dn[1] + 1])

\* inflate acts on the symbol read, <<symbol, bits>>: a literal, the end of
\* the block, or a length (286 and 287 are not length codes)
InflateAct(buf, st, sn) ==
    IF sn[2] = 0 THEN [st EXCEPT !.mode = "error"]
    ELSE IF sn[1] <= 255
    THEN [st EXCEPT !.bp = st.bp + sn[2], !.out = Append(st.out, sn[1])]
    ELSE IF sn[1] = 256
    THEN [st EXCEPT !.bp = st.bp + sn[2],
                    !.mode = IF st.final THEN "done" ELSE "header"]
    ELSE IF sn[1] >= 286 THEN [st EXCEPT !.mode = "error"]
    ELSE InflateMatch(buf, st, sn[1] - 256, st.bp + sn[2])

\* one step of inflate: a block header, or one symbol of a block
InflateStep(buf, st) ==
    IF st.mode = "header" THEN InflateHeader(buf, st)
    ELSE IF st.mode = "fixed"
    THEN InflateAct(buf, st, FixedSymbol(buf, st.bp))
    ELSE IF st.mode = "dynamic"
    THEN InflateAct(buf, st, DynamicSymbol(buf, st.bp, st.lit))
    ELSE st

\* inflate run over the payload of buf until it ends: every step that does
\* not end it takes a bit or more.  Its states are what it is reading (mode:
\* the "header" of a block, a symbol of a "fixed" or of a "dynamic" block)
\* or how it ended ("done", "error"), whether the block is the final one,
\* the bit position, the output, and in a dynamic block its two codes as
\* entries <<code length, code, symbol>>
Inflate(buf) ==
    LET InflateStates ==
            [mode : STRING, final : BOOLEAN, bp : Nat, out : Seq(Nat),
             lit : Seq(Nat \X Nat \X Nat), dist : Seq(Nat \X Nat \X Nat)]
        run[lo \in Nat, hi \in Nat, st \in InflateStates] ==
            IF lo > hi \/ st.mode \in {"done", "error"} THEN st
            ELSE IF lo = hi THEN InflateStep(buf, st)
            ELSE run[((lo + hi) \div 2) + 1, hi, run[lo, (lo + hi) \div 2, st]]
    IN  run[1, 8 * Len(buf) + 1,
            [mode |-> "header", final |-> FALSE, bp |-> 0, out |-> <<>>,
             lit |-> <<>>, dist |-> <<>>]]

\* zlib.decompress(buf): [kind |-> "ok", data |-> bytes], or kind "error"
\* (zlib.error: bad header, bad block, truncated stream, Adler-32 mismatch);
\* the 4 bytes at the byte boundary after the last block are the Adler-32
\* of the output, and bytes after them are ignored
zlib_decompress(buf) ==
    IF Len(buf) < 2 THEN [kind |-> "error", data |-> <<>>]
    ELSE IF \/ (buf[1] * 256 + buf[2]) % 31 # 0
            \/ buf[1] % 16 # 8
            \/ buf[1] \div 16 > 7
            \/ (buf[2] \div 32) % 2 = 1
    THEN [kind |-> "error", data |-> <<>>]
    ELSE LET r  == Inflate(buf)
             at == 3 + ((r.bp + 7) \div 8)
         IN  IF r.mode # "done" THEN [kind |-> "error", data |-> <<>>]
             ELSE IF \/ at + 3 > Len(buf)
                     \/ SubSeq(buf, at, at + 3) # adler32(r.out)
             THEN [kind |-> "error", data |-> <<>>]
             ELSE [kind |-> "ok", data |-> r.out]

(***************************************************************************)
(* base64.b64encode / base64.b64decode                                     *)
(***************************************************************************)
\* the base64 alphabet, value v at index v + 1
B64Chars ==
   <<
      "A", "B", "C", "D", "E", "F", "G", "H", "I", "J", "K", "L", "M", "N", "O", "P",
      "Q", "R", "S", "T", "U", "V", "W", "X", "Y", "Z", "a", "b", "c", "d", "e", "f",
      "g", "h", "i", "j", "k", "l", "m", "n", "o", "p", "q", "r", "s", "t", "u", "v",
      "w", "x", "y", "z", "0", "1", "2", "3", "4", "5", "6", "7", "8", "9", "+", "/" >>

\* the value of an alphabet character
B64Val(ch) == CHOOSE v \in 0..63 : B64Chars[v + 1] = ch

\* the 4 characters for bytes 3g-2..3g of data ('=' where data has ended)
B64Group(data, g) ==
    LET n  == Len(data)
        b1 == data[3 * g - 2]
        b2 == IF 3 * g - 1 <= n THEN data[3 * g - 1] ELSE 0
        b3 == IF 3 * g <= n THEN data[3 * g] ELSE 0
    IN  << B64Chars[(b1 \div 4) + 1],
           B64Chars[(b1 % 4) * 16 + (b2 \div 16) + 1],
           IF 3 * g - 1 <= n THEN B64Chars[(b2 % 16) * 4 + (b3 \div 64) + 1]
                             ELSE "=",
           IF 3 * g <= n THEN B64Chars[(b3 % 64) + 1] ELSE "=" >>

\* base64.b64encode(data)
b64encode(data) ==
    Concat([g \in 1..((Len(data) + 2) \div 3) |-> B64Group(data, g)])

\* the bytes of group g of text made of whole groups of 4 alphabet
\* characters, the last group possibly ending in one or two '='
B64Ungroup(text, g) ==
    LET c(k) == text[4 * g - 4 + k]
        v(k) == IF c(k) = "=" THEN 0 ELSE B64Val(c(k))
        all  == << v(1) * 4 + (v(2) \div 16),
                   (v(2) % 16) * 16 + (v(3) \div 4),
                   (v(3) % 4) * 64 + v(4) >>
    IN  IF c(3) = "=" THEN SubSeq(all, 1, 1)
        ELSE IF c(4) = "=" THEN SubSeq(all, 1, 2)
        ELSE all

\* base64.b64decode(text) with validate=False, i.e. binascii.a2b_base64 in
\* its lenient mode: a character outside the alphabet other than '=' is
\* skipped; an '=' ends the input when 3 alphabet characters of the
\* current group of 4 were read, or 2 and this is the second '=' since the
\* last of them; what follows is not read. Every 4 alphabet characters
\* give 3 bytes, an ended group of 2 gives 1 byte and one of 3 gives 2.
\* Input that runs out inside a group raises binascii.Error.
b64decode(text) ==
    LET n        == Len(text)
        alpha    == {B64Chars[k] : k \in 1..64}
        isData(ch) == ch \in alpha
        before(k) == Cardinality({j \in 1..(k - 1) : text[j] \in alpha})
        pads(k)  == Cardinality({j \in 1..k :
                        /\ text[j] = "="
                        /\ \A i \in j..k : text[i] \notin alpha})
        ends     == {k \in 1..n :
                        /\ text[k] = "="
                        /\ \/ before(k) % 4 = 3
                           \/ before(k) % 4 = 2 /\ pads(k) >= 2}
        stop     == IF ends = {} THEN n + 1
                    ELSE CHOOSE k \in ends : \A j \in ends : k <= j
        read     == SelectSeq(SubSeq(text, 1, stop - 1), isData)
        quad_pos == Len(read) % 4
        groups   == read \o (IF quad_pos = 2 THEN <<"=", "=">>
                             ELSE IF quad_pos = 3 THEN <<"=">> ELSE <<>>)
    IN  IF ends = {} /\ quad_pos # 0
        THEN [kind |-> "binascii.Error", data |-> <<>>]
        ELSE [kind |-> "ok",
              data |-> Concat([g \in 1..(Len(groups) \div 4) |->
                                  B64Ungroup(groups, g)])]

(***************************************************************************)
(* bytes.decode() (UTF-8, strict)                                          *)
(***************************************************************************)
\* the decoder at byte k: st = <<skip, text, ok>> holds the bytes of the
\* current character still to pass over, the code points decoded so far and
\* whether every byte so far was valid; IsCont tells a continuation byte
Utf8From(data, k, st) ==
    LET n == Len(data)
        b == data[k]
        at(j) == data[k + j]
        IsCont(c) == c >= 128 /\ c <= 191
        out == st[2]
        err == <<0, <<>>, FALSE>>
    IN  IF ~st[3] THEN st
        ELSE IF st[1] > 0 THEN <<st[1] - 1, out, TRUE>>
        ELSE IF b < 128 THEN <<0, Append(out, b), TRUE>>
        ELSE IF b >= 194 /\ b <= 223
        THEN IF k + 1 <= n /\ IsCont(at(1))
             THEN <<1, Append(out, (b - 192) * 64 + (at(1) - 128)), TRUE>>
             ELSE err
        ELSE IF b >= 224 /\ b <= 239
        THEN IF /\ k + 2 <= n /\ IsCont(at(1)) /\ IsCont(at(2))
                /\ (b = 224 => at(1) >= 160)
                /\ (b = 237 => at(1) <= 159)
             THEN <<2, Append(out, (b - 224) * 4096 + (at(1) - 128) * 64
                                   + (at(2) - 128)), TRUE>>
             ELSE err
        ELSE IF b >= 240 /\ b <= 244
        THEN IF /\ k + 3 <= n /\ IsCont(at(1)) /\ IsCont(at(2)) /\ IsCont(at(3))
                /\ (b = 240 => at(1) >= 144)
                /\ (b = 244 => at(1) <= 143)
             THEN <<3, Append(out, (b - 240) * 262144 + (at(1) - 128) * 4096
                                   + (at(2) - 128) * 64 + (at(3) - 128)), TRUE>>
             ELSE err
        ELSE err

\* bytes.decode(): [kind |-> "ok", text |-> code points] or UnicodeDecodeError;
\* the bytes are passed in order, the range halved to keep the evaluation
\* shallow
bytes_decode(data) ==
    LET scan[lo \in Nat, hi \in Nat, st \in Nat \X Seq(Nat) \X BOOLEAN] ==
            IF lo > hi THEN st
            ELSE IF lo = hi THEN Utf8From(data, lo, st)
            ELSE scan[((lo + hi) \div 2) + 1, hi,
                      scan[lo, (lo + hi) \div 2, st]]
        end == scan[1, Len(data), <<0, <<>>, TRUE>>]
    IN  IF end[3] THEN [kind |-> "ok", text |-> end[2]]
        ELSE [kind |-> "UnicodeDecodeError", text |-> <<>>]

\* ord() of the characters the model's sequences are written with
Ord(ch) ==
    CASE ch = "A" -> 65 [] ch = "C" -> 67 [] ch = "G" -> 71 [] ch = "T" -> 84
      [] ch = "N" -> 78 [] ch = "X" -> 88
      [] ch = "a" -> 97 [] ch = "c" -> 99 [] ch = "g" -> 103 [] ch = "t" -> 116
      [] ch = "n" -> 110 [] ch = "x" -> 120
      [] ch = "1" -> 49 [] ch = "2" -> 50 [] ch = "3" -> 51
      [] ch = "\n" -> 10

\* a str as its code points
CodePoints(s) == [k \in 1..Len(s) |-> Ord(s[k])]


(***************************************************************************)
(* SequenceValidator, ChunkCompressor                                      *)
(***************************************************************************)
\* re.match(r'^[ACGTN]+$', text): a non-empty run of the five letters from
\* the start, ending at the end of the text or just before a final '\n'
\* ('$' also matches before a trailing newline)
RegexMatch(text) ==
    \E k \in 1..Len(text) :
        /\ \/ k = Len(text)
           \/ k = Len(text) - 1 /\ text[Len(text)] = "\n"
        /\ \A j \in 1..k : text[j] \in {"A", "C", "G", "T", "N"}

\* GenomeCompressor._validate_sequence
_validate_sequence(sequence) ==
    IF ~RegexMatch(Upper(sequence)) THEN FALSE
    ELSE IF Len(sequence) < MinSequenceLength THEN FALSE
    ELSE TRUE

\* GenomeCompressor._compress_repetitive
_compress_repetitive(data) == zlib_compress(data)

\* a faulty variant of _compress_chunk: the checksum is taken of the
\* compressed bytes
CompressChunkChecksumAfter(chunk) ==
    LET encoded    == _encode_sequence(chunk)
        compressed == zlib_compress(encoded)
        metadata   == [original_length  |-> Len(chunk),
                       patterns         |-> _find_patterns(chunk),
                       checksum         |-> crc32(compressed),
                       quality_scores   |-> _calculate_quality_scores(chunk),
                       compression_type |-> "adaptive",
                       error_rate       |-> _calculate_error_rate(chunk)]
    IN  <<compressed, metadata>>

\* GenomeCompressor._compress_chunk: <<compressed, metadata>>
_compress_chunk(chunk) ==
    LET encoded    == _encode_sequence(chunk)
        patterns   == _find_patterns(chunk)
        compressed == IF _is_highly_repetitive(chunk)
                      THEN _compress_repetitive(encoded)
                      ELSE zlib_compress(encoded)
        metadata   == [original_length  |-> Len(chunk),
                       patterns         |-> patterns,
                       checksum         |-> crc32(encoded),
                       quality_scores   |-> _calculate_quality_scores(chunk),
                       compression_type |-> "adaptive",
                       error_rate       |-> _calculate_error_rate(chunk)]
    IN  <<compressed, metadata>>

(***************************************************************************)
(* ChunkOrchestrator: the pure parts of GenomeCompressor.compress          *)
(***************************************************************************)
RECURSIVE Range(_, _, _)
\* range(start, stop, step) for step > 0
Range(start, stop, step) ==
    IF start >= stop THEN <<>>
    ELSE <<start>> \o Range(start + step, stop, step)

\* a faulty variant of SplitChunks: every slice runs one symbol into the next
SplitOverlapping(data, size) ==
    LET starts == Range(0, Len(data), size)
    IN  [k \in 1..Len(starts) |-> Slice(data, starts[k], starts[k] + size + 1)]

\* [genome_data[i:i + chunk_size] for i in range(0, len(genome_data), chunk_size)]
SplitChunks(data, size) ==
    LET starts == Range(0, Len(data), size)
    IN  [k \in 1..Len(starts) |-> Slice(data, starts[k], starts[k] + size)]

\* a faulty variant of ChunksToSubmit: the input is split whether or not it
\* is valid
SplitUnvalidated(data, size) == SplitChunks(data, size)

\* the chunks compress hands to the pool: validation comes first, and a
\* rejected input raises before anything is split
ChunksToSubmit(data, size) ==
    IF ~_validate_sequence(data) THEN <<>> ELSE SplitChunks(data, size)

\* sum(m[field] for m in metadata_list) / len(metadata_list) where the field
\* holds a list: sum() starts from the int 0, and 0 + list raises TypeError;
\* with no entry the sum is 0 and the division raises ZeroDivisionError
MeanOfLists(lists) ==
    IF Len(lists) > 0 THEN [kind |-> "TypeError", value |-> 0]
    ELSE [kind |-> "ZeroDivisionError", value |-> 0]

RECURSIVE SumRates(_, _)
\* the sum of the error rates k.. as a fraction over the common denominator
\* that is the product of the denominators
SumRates(rates, k) ==
    IF k > Len(rates) THEN [num |-> 0, den |-> 1]
    ELSE LET rest == SumRates(rates, k + 1)
         IN  [num |-> rates[k].num * rest.den + rest.num * rates[k].den,
              den |-> rates[k].den * rest.den]

\* the CompressionStats record of lines 153-161, or the exception raised
\* while its arguments are evaluated (in order: quality_score, error_rate)
BuildStats(data, blob, metas) ==
    LET quality == MeanOfLists([k \in 1..Len(metas) |-> metas[k].quality_scores])
        rates   == SumRates([k \in 1..Len(metas) |-> metas[k].error_rate], 1)
    IN  IF quality.kind # "ok" THEN [kind |-> quality.kind, stats |-> <<>>]
        ELSE [kind  |-> "ok",
              stats |-> [original_size     |-> Len(data),
                         compressed_size   |-> Len(blob),
                         compression_ratio |-> [num |-> Len(blob),
                                                den |-> Len(data)],
                         algorithm         |-> "adaptive",
                         quality_score     |-> quality.value,
                         error_rate        |-> [num |-> rates.num,
                                                den |-> rates.den * Len(metas)]]]


(***************************************************************************)
(* Bounds and inputs                                                       *)
(***************************************************************************)
\* the longest tail appended to the 100-symbol (or 99-symbol) periodic body
MaxTail == 1
\* os.cpu_count() of the machine compress runs on, which the program does
\* not fix: a machine with one CPU (1 is also what the pool takes when
\* os.cpu_count() is None) and one with four.  ThreadPoolExecutor() of line
\* 136 is given no max_workers and allows min(32, os.cpu_count() + 4) threads
CpuCounts == {1, 4}
\* the most entries in a metadata list handed to decompress
MaxEntries == 2

\* chunk_size values given to GenomeCompressor(chunk_size=...): one chunk,
\* two chunks and three chunks for the inputs below
ChunkSizes == {40, 64, 128}

\* 100-symbol bodies: a periodic one, and one with lower case and N
Bodies == { Rep(<<"A", "C", "G", "T">>, 25),
            Rep(<<"a", "C", "N", "T", "T", "g", "A", "A", "c", "T">>, 10) }

\* a 100-symbol text of A and N in no regular order: zlib writes the
\* encoding of it, and that of its symbols 54 to 98, as a dynamic-Huffman
\* block
Aperiodic ==
    <<"N", "A", "A", "N", "A", "N", "A", "A", "N", "A", "N", "A", "A", "A", "N",
      "N", "N", "N", "A", "N", "N", "A", "A", "N", "N", "N", "A", "N", "A", "A",
      "N", "A", "N", "A", "A", "A", "N", "N", "A", "N", "A", "A", "N", "A", "A",
      "N", "A", "N", "A", "N", "N", "A", "N", "A", "N", "N", "N", "A", "N", "A",
      "N", "N", "N", "N", "A", "A", "N", "A", "A", "N", "N", "A", "N", "A", "A",
      "A", "A", "A", "A", "A", "A", "N", "A", "N", "N", "N", "A", "A", "N", "N",
      "A", "A", "A", "A", "A", "A", "N", "N", "A", "A">>

RECURSIVE SeqsUpTo(_, _)
\* all sequences over S of length at most n
SeqsUpTo(S, n) ==
    IF n = 0 THEN {<<>>}
    ELSE LET shorter == SeqsUpTo(S, n - 1)
         IN  shorter \cup {Append(t, x) : t \in shorter, x \in S}

\* the sequences handed to compress: the periodic body, whole or without
\* its last symbol, followed by a tail (nothing, or a letter, a newline or a
\* foreign character, once or several times); the bodies as they are; the
\* empty text and "123"; the text in no regular order; a body with a newline
\* in the middle
CompressInputs ==
    {SubSeq(Rep(<<"A", "C", "G", "T">>, 25), 1, 100 - cut) \o Rep(<<c>>, k) :
        cut \in 0..1, c \in {"G", "\n", "X"}, k \in 0..MaxTail}
    \cup Bodies
    \cup {<<>>, <<"1", "2", "3">>, Aperiodic}
    \cup {SubSeq(body, 1, 50) \o <<"\n">> \o SubSeq(body, 51, 100) :
             body \in Bodies}

\* GenomeCompressor's default chunk_size, which the pipeline's compressor has
DefaultChunkSize == 1024 * 1024

\* _preprocess, line 232: the upper-cased characters that are in 'ACGTN'
Cleaned(data) ==
    SelectSeq(Upper(data), LAMBDA c : c \in {"A", "C", "G", "T", "N"})

\* the texts handed to process: those of test_pattern_cache, a valid
\* periodic one, a body with a newline in the middle, and texts that clean
\* to nothing
PipelineInputs ==
    { Rep(<<"A", "C", "G", "T", "A", "C", "G", "T">>, 10),
      Rep(<<"A", "C", "G", "T", "A", "C", "G", "T">>, 5),
      Rep(<<"A", "C", "G", "T">>, 25),
      <<>>, <<"1", "2", "3">> }
    \cup {SubSeq(body, 1, 50) \o <<"\n">> \o SubSeq(body, 51, 100) :
             body \in Bodies}


(***************************************************************************)
(* State                                                                   *)
(***************************************************************************)
VARIABLES
    chunk_size,         \* GenomeCompressor.chunk_size
    compression_stats,  \* GenomeCompressor.compression_stats, the history
    op,                 \* the call in progress: "none", "compress", "decompress"
    pc,                 \* where that call is
    outcome,            \* how the call ended: [kind, value]
    stats_at_call,      \* the history as it was when the call was entered
    genome_data,        \* compress: its argument
    chunks,             \* compress: the chunk list
    max_workers,        \* pool: the most threads it starts (0: no pool)
    fs,                 \* pool: the futures executor.map still holds
    tasks,              \* pool: the state of the task of each submitted chunk
    runs,               \* pool: how many times each task was started
    results,            \* pool: what each finished task returned
    completed,          \* pool: the tasks that have ended, in the order they ended
    compressed_chunks,  \* compress: the list the results are collected in
    metadata_list,      \* compress: the list the metadata are collected in
    final_compressed,   \* compress: the merged buffer
    encoded_text,       \* compress: the base64 text of the merged buffer
    compressed_data,    \* decompress: its first argument
    dmetadata,          \* decompress: its second argument
    decoded,            \* decompress: the base64-decoded buffer
    current_pos,        \* decompress: the cursor into decoded
    entry,              \* decompress: the metadata entry the loop is at
    decompressed,       \* decompress: what the last zlib.decompress returned
    checked,            \* decompress: the entry whose chunk decompressed holds
    decompressed_chunks,\* decompress: the chunks decoded so far
    warnings,           \* decompress: the positions logger.warning reported
    handed,             \* decompress: how the caller made the arguments
    argument,           \* a helper method called directly: its argument
    stats_held,         \* the caller holds the list get_compression_stats returned
    patterns_cache,     \* pipeline: pattern -> accumulated positions
    quality_cache,      \* pipeline: md5 hex digest -> quality scores
    calls,              \* pipeline: the process calls made so far
    callers,            \* pipeline: the process calls that threads are in
    overlapped          \* pipeline: a call was entered while another was running

poolVars == <<max_workers, fs, tasks, runs, results, completed>>
compressVars == <<genome_data, chunks, compressed_chunks, metadata_list,
                  final_compressed, encoded_text>>
decompressVars == <<compressed_data, dmetadata, decoded, current_pos, entry,
                    decompressed, checked, decompressed_chunks, warnings,
                    handed>>
pipelineVars == <<patterns_cache, quality_cache, calls, callers, overlapped>>
vars == <<chunk_size, compression_stats, op, pc, outcome, stats_at_call,
          poolVars, compressVars, decompressVars, argument, stats_held,
          pipelineVars>>

NoOutcome == [kind |-> "none", value |-> <<>>]

\* no arguments were handed to decompress
NotHanded == [origin |-> "none", text |-> <<>>]

\* a call's local state before the call
NoCompressLocals ==
    /\ genome_data' = <<>>
    /\ chunks' = <<>>
    /\ max_workers' = 0
    /\ fs' = <<>>
    /\ tasks' = <<>>
    /\ runs' = <<>>
    /\ results' = <<>>
    /\ completed' = <<>>
    /\ compressed_chunks' = <<>>
    /\ metadata_list' = <<>>
    /\ final_compressed' = <<>>
    /\ encoded_text' = <<>>

NoDecompressLocals ==
    /\ compressed_data' = <<>>
    /\ dmetadata' = <<>>
    /\ decoded' = <<>>
    /\ current_pos' = 0
    /\ entry' = 0
    /\ decompressed' = <<>>
    /\ checked' = 0
    /\ decompressed_chunks' = <<>>
    /\ warnings' = <<>>
    /\ handed' = NotHanded

\* the threads that may call process on one pipeline at the same time
MaxCallers == 2

\* a thread that has not called process: the locals of process,
\* _preprocess and _update_patterns_cache, and the branch line 247 took
\* for each pattern the loop is past
NoCall ==
    [pc           |-> "idle",
     cleaned      |-> <<>>,
     digest       |-> <<>>,
     new_patterns |-> <<>>,
     order        |-> <<>>,
     at           |-> 0,
     present      |-> FALSE,
     took         |-> <<>>,
     outcome      |-> "none"]

\* what the constructors leave besides chunk_size: an empty history, empty
\* caches, no call under way
Fresh ==
    /\ compression_stats = <<>>
    /\ op = "none"
    /\ pc = "idle"
    /\ outcome = NoOutcome
    /\ stats_at_call = <<>>
    /\ genome_data = <<>>
    /\ chunks = <<>>
    /\ max_workers = 0
    /\ fs = <<>>
    /\ tasks = <<>>
    /\ runs = <<>>
    /\ results = <<>>
    /\ completed = <<>>
    /\ compressed_chunks = <<>>
    /\ metadata_list = <<>>
    /\ final_compressed = <<>>
    /\ encoded_text = <<>>
    /\ compressed_data = <<>>
    /\ dmetadata = <<>>
    /\ decoded = <<>>
    /\ current_pos = 0
    /\ entry = 0
    /\ decompressed = <<>>
    /\ checked = 0
    /\ decompressed_chunks = <<>>
    /\ warnings = <<>>
    /\ handed = NotHanded
    /\ argument = <<>>
    /\ stats_held = FALSE
    /\ patterns_cache = <<>>
    /\ quality_cache = <<>>
    /\ calls = 0
    /\ callers = [t \in 1..MaxCallers |-> NoCall]
    /\ overlapped = FALSE

\* GenomeCompressor.__init__
Init ==
    /\ chunk_size \in ChunkSizes
    /\ Fresh

\* AdvancedCompressionPipeline.__init__, whose compressor is
\* GenomeCompressor(): made with the default chunk_size
PipelineInit ==
    /\ chunk_size = DefaultChunkSize
    /\ Fresh

(***************************************************************************)
(* GenomeCompressor.compress and its ThreadPoolExecutor                    *)
(***************************************************************************)
\* lines 124-136: validate, split, make the pool.  ThreadPoolExecutor()
\* sets its max_workers to min(32, (os.cpu_count() or 1) + 4)
CompressEnter(data) ==
    /\ pc = "idle"
    /\ stats_at_call' = compression_stats
    /\ genome_data' = data
    /\ chunks' = ChunksToSubmit(data, chunk_size)
    /\ fs' = <<>>
    /\ tasks' = <<>>
    /\ runs' = <<>>
    /\ results' = <<>>
    /\ completed' = <<>>
    /\ IF ~_validate_sequence(data)
       THEN /\ pc' = "done"
            /\ outcome' = [kind |-> "InvalidSequence", value |-> <<>>]
            /\ max_workers' = 0
       ELSE /\ pc' = IF chunks' = <<>> THEN "collect" ELSE "submit"
            /\ outcome' = NoOutcome
            /\ \E cpus \in CpuCounts : max_workers' = Min(32, cpus + 4)
    /\ UNCHANGED <<argument, stats_held>>
    /\ UNCHANGED <<chunk_size, compression_stats, compressed_chunks,
                   metadata_list, final_compressed, encoded_text, decompressVars>>

\* compress(data) called on the compressor
Compress(data) ==
    /\ op' = "compress"
    /\ CompressEnter(data)
    /\ UNCHANGED pipelineVars

\* line 137, executor.map: fs = [self.submit(fn, *args) for args in ...]
\* submits the chunks one by one, while the pool threads run the tasks
\* submitted before.  After the last one the loop of line 139 asks for the
\* first result and the result iterator reverses fs, to pop the futures
\* off its end in the order they were submitted in
Submit ==
    /\ pc = "submit"
    /\ Len(tasks) < Len(chunks)
    /\ tasks' = Append(tasks, "pending")
    /\ runs' = Append(runs, 0)
    /\ results' = Append(results, <<>>)
    /\ LET held == Append(fs, Len(tasks) + 1)
       IN  IF Len(held) < Len(chunks)
           THEN /\ fs' = held
                /\ UNCHANGED pc
           ELSE /\ fs' = [k \in 1..Len(held) |-> held[Len(held) + 1 - k]]
                /\ pc' = "collect"
    /\ UNCHANGED <<pipelineVars, argument, stats_held>>
    /\ UNCHANGED <<chunk_size, compression_stats, op, outcome, stats_at_call,
                   max_workers, completed, compressVars, decompressVars>>

\* a pool thread that has taken task i off the queue marks it running.  The
\* threads take the tasks off the queue in the order of submission and hold
\* one task each, but the one that took a later task may mark it running
\* before the one that took an earlier task does: task i can start when the
\* unfinished tasks before it leave one of the max_workers threads for it
WorkerStart(i) ==
    /\ tasks[i] = "pending"
    /\ Cardinality({j \in 1..(i - 1) : tasks[j] \in {"pending", "running"}})
           < max_workers
    /\ tasks' = [tasks EXCEPT ![i] = "running"]
    /\ runs' = [runs EXCEPT ![i] = @ + 1]
    /\ UNCHANGED <<pipelineVars, argument, stats_held>>
    /\ UNCHANGED <<chunk_size, compression_stats, op, pc, outcome,
                   stats_at_call, max_workers, fs, results, completed,
                   compressVars, decompressVars>>

\* _compress_chunk of every chunk that the sequences handed to compress,
\* and the cleaned texts process hands to it, are split into, as pairs
\* <<chunk, result>>: the function is pure, so that a task's result is what
\* this table holds for its chunk
ChunkResults ==
    LET elems(cs) == {cs[k] : k \in 1..Len(cs)}
    IN  {<<chunk, _compress_chunk(chunk)>> :
            chunk \in UNION ({elems(ChunksToSubmit(data, size)) :
                                 data \in CompressInputs, size \in ChunkSizes}
                             \cup {elems(ChunksToSubmit(Cleaned(data),
                                                        DefaultChunkSize)) :
                                      data \in PipelineInputs})}

\* the task's _compress_chunk(chunks[i]) returns
WorkerFinish(i) ==
    /\ tasks[i] = "running"
    /\ tasks' = [tasks EXCEPT ![i] = "done"]
    /\ results' = [results EXCEPT ![i] =
                      (CHOOSE r \in ChunkResults : r[1] = chunks[i])[2]]
    /\ completed' = Append(completed, i)
    /\ UNCHANGED <<pipelineVars, argument, stats_held>>
    /\ UNCHANGED <<chunk_size, compression_stats, op, pc, outcome,
                   stats_at_call, max_workers, fs, runs, compressVars,
                   decompressVars>>

\* the task's _compress_chunk(chunks[i]) raises (WorkerFailure)
WorkerRaise(i) ==
    /\ tasks[i] = "running"
    /\ tasks' = [tasks EXCEPT ![i] = "failed"]
    /\ completed' = Append(completed, i)
    /\ UNCHANGED <<pipelineVars, argument, stats_held>>
    /\ UNCHANGED <<chunk_size, compression_stats, op, pc, outcome,
                   stats_at_call, max_workers, fs, runs, results,
                   compressVars, decompressVars>>

\* a faulty variant of NextResult: the results are taken in the order the
\* tasks ended (as with concurrent.futures.as_completed)
NextCompleted(held, ended) ==
    {ended[k] : k \in {n \in DOMAIN ended :
                          /\ \E h \in DOMAIN held : held[h] = ended[n]
                          /\ \A j \in 1..(n - 1) :
                                 \A h \in DOMAIN held : held[h] # ended[j]}}

\* the task whose result executor.map yields next, fs.pop(): the last of
\* the reversed list, so that the results come in the order the chunks were
\* submitted, each awaited in turn
NextResult(held, ended) == {held[k] : k \in {Len(held)} \cap DOMAIN held}

\* lines 139-141: the next result is ready and is appended to both lists
Collect(i) ==
    /\ pc = "collect"
    /\ i \in NextResult(fs, completed)
    /\ tasks[i] = "done"
    /\ fs' = SelectSeq(fs, LAMBDA j : j # i)
    /\ compressed_chunks' = Append(compressed_chunks, results[i][1])
    /\ metadata_list' = Append(metadata_list, results[i][2])
    /\ UNCHANGED <<pipelineVars, argument, stats_held>>
    /\ UNCHANGED <<chunk_size, compression_stats, op, pc, outcome,
                   stats_at_call, max_workers, tasks, runs, results,
                   completed, genome_data, chunks, final_compressed, encoded_text,
                   decompressVars>>

\* the next result is an exception: fut.result() raises it in the result
\* iterator, which goes on to its finally clause
CollectRaise(i) ==
    /\ pc = "collect"
    /\ i \in NextResult(fs, completed)
    /\ tasks[i] = "failed"
    /\ fs' = SelectSeq(fs, LAMBDA j : j # i)
    /\ pc' = "unwind"
    /\ outcome' = [kind |-> "raising", value |-> i]
    /\ UNCHANGED <<pipelineVars, argument, stats_held>>
    /\ UNCHANGED <<chunk_size, compression_stats, op, stats_at_call,
                   max_workers, tasks, runs, results, completed,
                   compressVars, decompressVars>>

\* a faulty variant of Propagate: the failure is swallowed and what was
\* collected so far is returned
ReturnPartial(i, blobs, metas) == [kind |-> "returned", value |-> <<blobs, metas>>]

\* what leaves compress when a chunk task raised: that task's exception
Propagate(i, blobs, metas) == [kind |-> "WorkerFailure", value |-> i]

\* the exception on its way out of the with block, a step at a time.
\* First the finally clause of the result iterator, `for future in fs:
\* future.cancel()`, one future at a step, the last submitted first: a task
\* no thread has taken yet is cancelled, a running or ended one is left as
\* it is, and the pool threads go on taking tasks in between (fs keeps the
\* futures the loop has not reached).  Then the with block is left once the
\* running tasks have ended (shutdown(wait=True)), and the exception goes on
\* to the caller
Unwind ==
    /\ pc = "unwind"
    /\ IF fs # <<>>
       THEN /\ tasks' = [tasks EXCEPT ![Head(fs)] =
                            IF @ = "pending" THEN "cancelled" ELSE @]
            /\ fs' = Tail(fs)
            /\ UNCHANGED <<pc, outcome>>
       ELSE /\ \A k \in DOMAIN tasks : tasks[k] # "running"
            /\ pc' = "done"
            /\ outcome' = Propagate(outcome.value, compressed_chunks,
                                    metadata_list)
            /\ UNCHANGED <<fs, tasks>>
    /\ UNCHANGED <<pipelineVars, argument, stats_held>>
    /\ UNCHANGED <<chunk_size, compression_stats, op, stats_at_call,
                   max_workers, runs, results, completed, compressVars,
                   decompressVars>>

\* lines 143-150: every result is collected; merge and base64-encode
Merge ==
    /\ pc = "collect"
    /\ Len(compressed_chunks) = Len(chunks)
    /\ final_compressed' = Concat(compressed_chunks)
    /\ encoded_text' = b64encode(final_compressed')
    /\ pc' = "stats"
    /\ UNCHANGED <<pipelineVars, argument, stats_held>>
    /\ UNCHANGED <<chunk_size, compression_stats, op, outcome, stats_at_call,
                   poolVars, genome_data, chunks, compressed_chunks,
                   metadata_list, decompressVars>>

\* lines 265-268 when the call is process: each entry gets the keys
\* cached_patterns and quality_cache, bound to the pipeline's own dicts (the
\* objects, not copies); a compress call returns the list as it is
Stamped(call, metas) ==
    IF call # "process" THEN metas
    ELSE [k \in 1..Len(metas) |->
             [key \in DOMAIN metas[k] \cup {"cached_patterns", "quality_cache"} |->
                 IF key = "cached_patterns" THEN [ref |-> "self.patterns_cache"]
                 ELSE IF key = "quality_cache" THEN [ref |-> "self.quality_cache"]
                 ELSE metas[k][key]]]

\* lines 152-168: build the stats record, append it, return (through
\* process, if that made the call)
Finish ==
    /\ pc = "stats"
    /\ LET built == BuildStats(genome_data, encoded_text, metadata_list)
       IN  IF built.kind # "ok"
           THEN /\ outcome' = [kind |-> built.kind, value |-> <<>>]
                /\ UNCHANGED compression_stats
           ELSE /\ compression_stats' = Append(compression_stats, built.stats)
                /\ outcome' = [kind  |-> "returned",
                               value |-> <<encoded_text,
                                           Stamped(op, metadata_list)>>]
    /\ pc' = "done"
    /\ UNCHANGED <<pipelineVars, argument, stats_held>>
    /\ UNCHANGED <<chunk_size, op, stats_at_call, poolVars, compressVars,
                   decompressVars>>

\* the caller has the call's result or exception; the call's locals are gone
Return ==
    /\ pc = "done"
    /\ pc' = "idle"
    /\ op' = "none"
    /\ outcome' = NoOutcome
    /\ stats_at_call' = <<>>
    /\ NoCompressLocals
    /\ NoDecompressLocals
    /\ argument' = <<>>
    /\ UNCHANGED <<pipelineVars, stats_held>>
    /\ UNCHANGED <<chunk_size, compression_stats>>


(***************************************************************************)
(* GenomeCompressor.decompress                                             *)
(***************************************************************************)
\* the chunks the blobs handed to decompress are made from
DChunks == { <<"A", "C", "G", "T">>, <<"T", "T", "T", "T">> }

\* all sequences over S of length 1..n
SeqsFrom1(S, n) == SeqsUpTo(S, n) \ {<<>>}

\* what the pool returns for a chunk list: <<compressed, metadata>> of each
BuiltFrom(cs) == [k \in 1..Len(cs) |-> _compress_chunk(cs[k])]

\* the merged buffer compress builds from those results (line 144)
MergedBuffer(built) == Concat([k \in 1..Len(built) |-> built[k][1]])

\* the metadata list compress builds from those results (line 141)
ChunkMetadata(built) == [k \in 1..Len(built) |-> built[k][2]]

\* that metadata with original_length set by the caller to each chunk's
\* compressed byte length, and with entry `stale` (if any) carrying the
\* checksum of other bytes
ByteLengthMetadata(built, stale, other) ==
    [k \in 1..Len(built) |->
        [built[k][2] EXCEPT
            !.original_length = Len(built[k][1]),
            !.checksum = IF k = stale THEN other ELSE @]]

\* the blobs with one byte of buffer changed: the byte at position p
\* differs from the original by the bit pattern mask
CorruptedBlobs(buffer) ==
    {b64encode([buffer EXCEPT ![p] = Xor(@, mask)]) :
        p \in 1..Len(buffer), mask \in {64, 132}}

\* the chunk lists the pairs are built for: lists of short chunks, the
\* chunk lists of the 100-symbol bodies, and one chunk of 45 symbols in no
\* regular order
ChunkLists ==
    SeqsFrom1(DChunks, MaxEntries)
    \cup {SplitChunks(body, size) : body \in Bodies, size \in ChunkSizes}
    \cup {<<SubSeq(Aperiodic, 54, 98)>>}

\* what is handed to decompress: the blob and the metadata list, with how
\* the caller made them (origin) from the chunks of which text
Handed(origin, text, blob, metadata) ==
    [origin |-> origin, text |-> text, blob |-> blob, metadata |-> metadata]

\* a chunk list with what the pool returns for it
WithBuilt(lists) == {<<cs, BuiltFrom(cs)>> : cs \in lists}

\* the pairs compress builds (lines 141-150) for the chunk lists
BuiltInputs ==
    {Handed("built", Concat(b[1]),
            b64encode(MergedBuffer(b[2])), ChunkMetadata(b[2])) :
        b \in WithBuilt(ChunkLists)}

\* the checksum a stale entry carries: that of the encoding of GGGG
StaleChecksum == crc32(_encode_sequence(<<"G", "G", "G", "G">>))

\* the built pair of b with caller-set byte lengths, or the same with one
\* entry's checksum stale
ByteLengthInputs(b) ==
    {Handed(IF stale = 0 THEN "length" ELSE "stale", Concat(b[1]),
            b64encode(MergedBuffer(b[2])),
            ByteLengthMetadata(b[2], stale, StaleChecksum)) :
        stale \in 0..Len(b[2])}

\* the pairs with byte-length metadata: none stale, or one entry stale
LengthInputs ==
    UNION {ByteLengthInputs(b) :
              b \in WithBuilt(SeqsFrom1(DChunks, MaxEntries))}

\* a pair with one byte of the merged buffer changed, the metadata as it was
CorruptedOf(pair) ==
    {[pair EXCEPT !.origin = IF @ = "built" THEN "corrupted"
                             ELSE "corrupted_length",
                  !.blob = blob] :
        blob \in CorruptedBlobs(b64decode(pair.blob).data)}

\* the pairs above that no checksum is stale in, with one byte changed
CorruptedInputs ==
    UNION {CorruptedOf(pair) :
              pair \in {q \in BuiltInputs \cup LengthInputs :
                           q.origin # "stale"}}

\* what is handed to decompress
DecompressInputs == BuiltInputs \cup LengthInputs \cup CorruptedInputs

\* a faulty variant of ChecksumMatches: the checksum is not looked at
ChecksumIgnored(data, metadata) == TRUE

\* line 205: the recomputed CRC-32 equals the stored checksum
ChecksumMatches(data, metadata) == crc32(data) = metadata.checksum

\* a faulty variant of LowQuality: a score at the threshold counts as low
LowQualityInclusive(metadata) ==
    /\ metadata.quality_scores # <<>>
    /\ \E k \in DOMAIN metadata.quality_scores :
          metadata.quality_scores[k] <= quality_threshold

\* line 209: some stored quality score is below the threshold
LowQuality(metadata) ==
    /\ metadata.quality_scores # <<>>
    /\ \E k \in DOMAIN metadata.quality_scores :
          metadata.quality_scores[k] < quality_threshold

\* lines 185-192 once the blob is base64-decoded (d is the outcome)
DecompressDecoded(d) ==
    /\ IF d.kind # "ok"
       THEN /\ pc' = "done"
            /\ outcome' = [kind |-> d.kind, value |-> <<>>]
            /\ decoded' = <<>>
       ELSE /\ pc' = "dloop"
            /\ outcome' = NoOutcome
            /\ decoded' = d.data
    /\ current_pos' = 0
    /\ entry' = 1

\* decompress(input.blob, input.metadata), lines 182-192
Decompress(input) ==
    /\ pc = "idle"
    /\ op' = "decompress"
    /\ stats_at_call' = compression_stats
    /\ compressed_data' = input.blob
    /\ dmetadata' = input.metadata
    /\ handed' = [origin |-> input.origin, text |-> input.text]
    /\ DecompressDecoded(b64decode(input.blob))
    /\ UNCHANGED <<pipelineVars, argument, stats_held>>
    /\ UNCHANGED <<chunk_size, compression_stats, poolVars, compressVars,
                   decompressed, checked, decompressed_chunks, warnings>>

\* a faulty variant of DecompressVerify: the cursor is not moved on
DecompressVerifyNoAdvance(metadata, z) ==
    IF z.kind # "ok"
    THEN /\ pc' = "done"
         /\ outcome' = [kind |-> "zlib.error", value |-> <<>>]
         /\ UNCHANGED <<decompressed, checked, decompressed_chunks,
                        warnings, current_pos, entry>>
    ELSE /\ decompressed' = z.data
         /\ checked' = entry
         /\ IF ~ChecksumMatches(z.data, metadata)
            THEN /\ pc' = "done"
                 /\ outcome' = [kind  |-> "ChecksumMismatch",
                                value |-> current_pos]
                 /\ UNCHANGED <<decompressed_chunks, warnings,
                                current_pos, entry>>
            ELSE /\ warnings' = IF LowQuality(metadata)
                                THEN Append(warnings, current_pos)
                                ELSE warnings
                 /\ decompressed_chunks' = Append(decompressed_chunks, z.data)
                 /\ entry' = entry + 1
                 /\ UNCHANGED <<pc, outcome, current_pos>>

\* lines 200-213 for one entry, z being the outcome of zlib.decompress
DecompressVerify(metadata, z) ==
    IF z.kind # "ok"
    THEN /\ pc' = "done"
         /\ outcome' = [kind |-> "zlib.error", value |-> <<>>]
         /\ UNCHANGED <<decompressed, checked, decompressed_chunks,
                        warnings, current_pos, entry>>
    ELSE /\ decompressed' = z.data
         /\ checked' = entry
         /\ IF ~ChecksumMatches(z.data, metadata)
            THEN /\ pc' = "done"
                 /\ outcome' = [kind  |-> "ChecksumMismatch",
                                value |-> current_pos]
                 /\ UNCHANGED <<decompressed_chunks, warnings,
                                current_pos, entry>>
            ELSE /\ warnings' = IF LowQuality(metadata)
                                THEN Append(warnings, current_pos)
                                ELSE warnings
                 /\ decompressed_chunks' = Append(decompressed_chunks, z.data)
                 /\ current_pos' = current_pos + metadata.original_length
                 /\ entry' = entry + 1
                 /\ UNCHANGED <<pc, outcome>>

\* one turn of the loop of lines 194-213
DecompressChunk ==
    /\ pc = "dloop"
    /\ entry <= Len(dmetadata)
    /\ DecompressVerify(
           dmetadata[entry],
           zlib_decompress(Slice(decoded, current_pos,
                                 current_pos + dmetadata[entry].original_length)))
    /\ UNCHANGED <<pipelineVars, argument, stats_held>>
    /\ UNCHANGED <<chunk_size, compression_stats, op, stats_at_call, poolVars,
                   compressVars, compressed_data, dmetadata, decoded, handed>>

\* ''.join(chunk.decode() for chunk in decompressed_chunks): the text, or
\* the first chunk that is not UTF-8
JoinDecoded(chunk_list) ==
    LET texts == [k \in 1..Len(chunk_list) |-> bytes_decode(chunk_list[k])]
    IN  IF \E k \in 1..Len(texts) : texts[k].kind # "ok"
        THEN [kind |-> "UnicodeDecodeError", value |-> <<>>]
        ELSE [kind  |-> "returned",
              value |-> Concat([k \in 1..Len(texts) |-> texts[k].text])]

\* line 215: every entry is done; decode the chunks as text and return
DecompressReturn ==
    /\ pc = "dloop"
    /\ entry > Len(dmetadata)
    /\ pc' = "done"
    /\ outcome' = JoinDecoded(decompressed_chunks)
    /\ UNCHANGED <<pipelineVars, argument, stats_held>>
    /\ UNCHANGED <<chunk_size, compression_stats, op, stats_at_call, poolVars,
                   compressVars, decompressVars>>

(***************************************************************************)
(* Specification                                                           *)
(***************************************************************************)
Next ==
    \/ \E data \in CompressInputs : Compress(data)
    \/ Submit
    \/ \E i \in DOMAIN tasks : WorkerStart(i)
    \/ \E i \in DOMAIN tasks : WorkerFinish(i)
    \/ \E i \in DOMAIN tasks : WorkerRaise(i)
    \/ \E i \in DOMAIN tasks : Collect(i)
    \/ \E i \in DOMAIN tasks : CollectRaise(i)
    \/ Unwind
    \/ Merge
    \/ Finish
    \/ \E input \in DecompressInputs : Decompress(input)
    \/ DecompressChunk
    \/ DecompressReturn
    \/ Return

Spec == Init /\ [][Next]_vars

(***************************************************************************)
(* hashlib.md5                                                             *)
(***************************************************************************)
\* 32-bit words are pairs <<high half, low half>> of 16-bit values
W32Add(a, b) ==
    LET lo == a[2] + b[2]
    IN  <<(a[1] + b[1] + (lo \div 65536)) % 65536, lo % 65536>>

RECURSIVE Bitwise(_, _, _, _)
\* the bitwise operation with truth table tt on the n low bits of a and b
Bitwise(tt, a, b, n) ==
    IF n = 0 THEN 0
    ELSE tt[(a % 2) + 1][(b % 2) + 1]
         + 2 * Bitwise(tt, a \div 2, b \div 2, n - 1)

\* a rotated left by s bits, 0 < s < 32
W32Rotl(a, s) ==
    LET y == IF s >= 16 THEN <<a[2], a[1]>> ELSE a
        r == s % 16
    IN  IF r = 0 THEN y
        ELSE <<((y[1] * (2 ^ r)) % 65536) + (y[2] \div (2 ^ (16 - r))),
               ((y[2] * (2 ^ r)) % 65536) + (y[1] \div (2 ^ (16 - r)))>>

\* MD5's additive constants floor(2^32 * abs(sin(i + 1))), i = 0..63
Md5K ==
    << <<55146, 42104>>, <<59591, 46934>>, <<9248, 28891>>, <<49597, 52974>>,
       <<62844, 4015>>, <<18311, 50730>>, <<43056, 17939>>, <<64838, 38145>>,
       <<27008, 39128>>, <<35652, 63407>>, <<65535, 23473>>, <<35164, 55230>>,
       <<27536, 4386>>, <<64920, 29075>>, <<42617, 17294>>, <<18868, 2081>>,
       <<63006, 9570>>, <<49216, 45888>>, <<9822, 23121>>, <<59830, 51114>>,
       <<54831, 4189>>, <<580, 5203>>, <<55457, 59009>>, <<59347, 64456>>,
       <<8673, 52710>>, <<49975, 2006>>, <<62677, 3463>>, <<17754, 5357>>,
       <<43491, 59653>>, <<64751, 41976>>, <<26479, 729>>, <<36138, 19594>>,
       <<65530, 14658>>, <<34673, 63105>>, <<28061, 24866>>, <<64997, 14348>>,
       <<42174, 59972>>, <<19422, 53161>>, <<63163, 19296>>, <<48831, 48240>>,
       <<10395, 32454>>, <<60065, 10234>>, <<54511, 12421>>, <<1160, 7429>>,
       <<55764, 53305>>, <<59099, 39397>>, <<8098, 31992>>, <<50348, 22117>>,
       <<62505, 8772>>, <<17194, 65431>>, <<43924, 9127>>, <<64659, 41017>>,
       <<25947, 22979>>, <<36620, 52370>>, <<65519, 62589>>, <<34180, 24017>>,
       <<28584, 32335>>, <<65068, 59104>>, <<41729, 17172>>, <<19976, 4513>>,
       <<63315, 32386>>, <<48442, 62005>>, <<10967, 53947>>, <<60294, 54161>> >>

\* round i (0..63) on block n of the padded message: the non-linear function
\* of the round, the message word it takes (little-endian), the shift amount
Md5Round(padded, n, i, st) ==
    LET wAnd(x, y) ==
            <<Bitwise(<<<<0, 0>>, <<0, 1>>>>, x[1], y[1], 16),
              Bitwise(<<<<0, 0>>, <<0, 1>>>>, x[2], y[2], 16)>>
        wOr(x, y) ==
            <<Bitwise(<<<<0, 1>>, <<1, 1>>>>, x[1], y[1], 16),
              Bitwise(<<<<0, 1>>, <<1, 1>>>>, x[2], y[2], 16)>>
        wXor(x, y) ==
            <<Bitwise(<<<<0, 1>>, <<1, 0>>>>, x[1], y[1], 16),
              Bitwise(<<<<0, 1>>, <<1, 0>>>>, x[2], y[2], 16)>>
        wNot(x) == <<65535 - x[1], 65535 - x[2]>>
        b == st[2]
        c == st[3]
        d == st[4]
        mix ==
            IF i < 16 THEN wOr(wAnd(b, c), wAnd(wNot(b), d))
            ELSE IF i < 32 THEN wOr(wAnd(d, b), wAnd(wNot(d), c))
            ELSE IF i < 48 THEN wXor(b, wXor(c, d))
            ELSE wXor(c, wOr(b, wNot(d)))
        g ==
            IF i < 16 THEN i
            ELSE IF i < 32 THEN (5 * i + 1) % 16
            ELSE IF i < 48 THEN (3 * i + 5) % 16
            ELSE (7 * i) % 16
        at == 64 * n + 4 * g
        word == <<padded[at + 3] + 256 * padded[at + 4],
                  padded[at + 1] + 256 * padded[at + 2]>>
        shifts == << <<7, 12, 17, 22>>, <<5, 9, 14, 20>>,
                     <<4, 11, 16, 23>>, <<6, 10, 15, 21>> >>
        f == W32Add(W32Add(mix, st[1]), W32Add(Md5K[i + 1], word))
    IN  <<d, W32Add(b, W32Rotl(f, shifts[(i \div 16) + 1][(i % 4) + 1])), b, c>>

\* the registers <<A, B, C, D>> after block n: 64 rounds, then the registers
\* it started from are added
Md5Block(padded, n, st) ==
    LET run[lo \in Nat, hi \in Nat, s \in Seq((0..65535) \X (0..65535))] ==
            IF lo > hi THEN s
            ELSE IF lo = hi THEN Md5Round(padded, n, lo, s)
            ELSE run[((lo + hi) \div 2) + 1, hi, run[lo, (lo + hi) \div 2, s]]
        out == run[0, 63, st]
    IN  [k \in 1..4 |-> W32Add(st[k], out[k])]

RECURSIVE Md5Blocks(_, _, _)
\* the registers after the blocks n.. of the padded message
Md5Blocks(padded, n, st) ==
    IF 64 * n >= Len(padded) THEN st
    ELSE Md5Blocks(padded, n + 1, Md5Block(padded, n, st))

\* hashlib.md5(msg).hexdigest() for a bytes value msg: the message is padded
\* to whole 64-byte blocks with 0x80, zero bytes and the bit length as 8
\* little-endian bytes (messages shorter than 2^21 bytes); the digest is the
\* registers' bytes, little-endian, as lower-case hex
md5_hexdigest(msg) ==
    LET zeros == (119 - (Len(msg) % 64)) % 64
        bits  == 8 * Len(msg)
        padded ==
            msg \o <<128>> \o [k \in 1..zeros |-> 0]
                \o [k \in 1..8 |->
                        IF k <= 3 THEN (bits \div (256 ^ (k - 1))) % 256 ELSE 0]
        st == Md5Blocks(padded, 0,
                        << <<26437, 8961>>, <<61389, 43913>>,
                           <<39098, 56574>>, <<4146, 21622>> >>)
        digits == <<"0", "1", "2", "3", "4", "5", "6", "7",
                    "8", "9", "a", "b", "c", "d", "e", "f">>
        HexByte(x) == <<digits[(x \div 16) + 1], digits[(x % 16) + 1]>>
        HexWord(w) ==
            HexByte(w[2] % 256) \o HexByte(w[2] \div 256)
                \o HexByte(w[1] % 256) \o HexByte(w[1] \div 256)
    IN  HexWord(st[1]) \o HexWord(st[2]) \o HexWord(st[3]) \o HexWord(st[4])

(***************************************************************************)
(* Methods of GenomeCompressor called directly, as the tests do            *)
(***************************************************************************)
\* the most repetitions of a unit in a sequence handed to _find_patterns
MaxRepeats == 25
\* the longest sequence handed to _encode_sequence
MaxBases == 3
\* the most records the history holds
MaxHistory == 2

\* the units the sequences handed to _find_patterns repeat: the period of
\* test_find_patterns, a homopolymer, and ten symbols with lower case and N
PatternUnits ==
    { <<"A", "C", "G", "T">>, <<"A">>,
      <<"a", "C", "N", "T", "T", "g", "A", "A", "c", "T">> }

\* the sequences handed to _find_patterns and _is_highly_repetitive
PatternInputs == {Rep(unit, k) : unit \in PatternUnits, k \in 1..MaxRepeats}

\* large_sequence = 'ACGT' * 1000 of test_large_sequence (4000 bp)
large_sequence == SubSeq(Rep(<<"A", "C", "G", "T">>, 1000), 1, 4000)

\* the sequences handed to _encode_sequence and _calculate_quality_scores:
\* the short ones, the long ones handed to _find_patterns, and two of 8
\* bases as the random sample of the tests may hold (runs, and symbols that
\* repeat two places on)
EncodeInputs ==
    SeqsUpTo({"A", "C", "G", "T", "N", "a"}, MaxBases) \cup PatternInputs
        \cup { <<"A", "A", "A", "C", "A", "C", "G", "T">>,
               <<"G", "T", "T", "T", "T", "C", "G", "C">> }

\* the records a caller puts into a list it holds
CallerRecords ==
    { [original_size     |-> 100,
       compressed_size   |-> 20,
       compression_ratio |-> [num |-> 20, den |-> 100],
       algorithm         |-> "adaptive",
       quality_score     |-> 30,
       error_rate        |-> [num |-> 0, den |-> 1]] }

\* a method that touches no state is called with s and ends with result
DirectCall(method, s, result) ==
    /\ pc = "idle"
    /\ op' = method
    /\ argument' = s
    /\ pc' = "done"
    /\ outcome' = result
    /\ stats_at_call' = compression_stats
    /\ UNCHANGED <<chunk_size, compression_stats, poolVars, compressVars,
                   decompressVars, stats_held, pipelineVars>>

\* compressor._find_patterns(s)
FindPatterns(s) ==
    DirectCall("_find_patterns", s,
               [kind |-> "returned", value |-> _find_patterns(s)])

\* compressor._is_highly_repetitive(s)
IsHighlyRepetitive(s) ==
    DirectCall("_is_highly_repetitive", s,
               [kind |-> "returned", value |-> _is_highly_repetitive(s)])

\* compressor._encode_sequence(s): int('', 2) raises ValueError for the
\* empty sequence (line 48)
EncodeSequence(s) ==
    DirectCall("_encode_sequence", s,
               IF s = <<>> THEN [kind |-> "ValueError", value |-> <<>>]
               ELSE [kind |-> "returned", value |-> _encode_sequence(s)])

\* compressor._calculate_quality_scores(s)
CalculateQualityScores(s) ==
    DirectCall("_calculate_quality_scores", s,
               [kind |-> "returned", value |-> _calculate_quality_scores(s)])

\* compressor.get_compression_stats(), lines 217-219: what is returned is
\* self.compression_stats, the list object the compressor appends to
GetCompressionStats ==
    /\ pc = "idle"
    /\ op' = "get_compression_stats"
    /\ pc' = "done"
    /\ outcome' = [kind |-> "returned", value |-> compression_stats]
    /\ stats_at_call' = compression_stats
    /\ stats_held' = TRUE
    /\ UNCHANGED <<chunk_size, compression_stats, poolVars, compressVars,
                   decompressVars, argument, pipelineVars>>

\* the caller appends a record to the list it was returned: the list is the
\* compressor's own
CallerAppend(record) ==
    /\ pc = "idle"
    /\ stats_held
    /\ Len(compression_stats) < MaxHistory
    /\ compression_stats' = Append(compression_stats, record)
    /\ UNCHANGED <<chunk_size, op, pc, outcome, stats_at_call, poolVars,
                   compressVars, decompressVars, argument, stats_held,
                   pipelineVars>>

\* the caller removes the last record of the list it was returned
CallerRemove ==
    /\ pc = "idle"
    /\ stats_held
    /\ compression_stats # <<>>
    /\ compression_stats' = SubSeq(compression_stats, 1,
                                   Len(compression_stats) - 1)
    /\ UNCHANGED <<chunk_size, op, pc, outcome, stats_at_call, poolVars,
                   compressVars, decompressVars, argument, stats_held,
                   pipelineVars>>

\* a caller that uses the methods above
CallNext ==
    \/ \E s \in PatternInputs \cup {large_sequence} : FindPatterns(s)
    \/ \E s \in PatternInputs \cup {large_sequence} : IsHighlyRepetitive(s)
    \/ \E s \in EncodeInputs : EncodeSequence(s)
    \/ \E s \in EncodeInputs : CalculateQualityScores(s)
    \/ GetCompressionStats
    \/ \E record \in CallerRecords : CallerAppend(record)
    \/ CallerRemove
    \/ Return

\* the compressor the methods are called on is GenomeCompressor(), made with
\* the default chunk_size, which none of these methods reads
CallSpec == PipelineInit /\ [][CallNext]_vars

(***************************************************************************)
(* AdvancedCompressionPipeline                                             *)
(***************************************************************************)
\* the most process calls made on one pipeline
MaxCalls == 2

\* a faulty variant of MergePositions: the new list replaces the old one
ReplacePositions(old, new) == new

\* self.patterns_cache[pattern].extend(positions)
MergePositions(old, new) == old \o new

\* _update_patterns_cache, lines 242-250, given what _find_patterns returned
UpdatePatternsCache(cache, new_patterns) ==
    [pattern \in DOMAIN cache \cup DOMAIN new_patterns |->
        IF pattern \notin DOMAIN cache THEN new_patterns[pattern]
        ELSE IF pattern \notin DOMAIN new_patterns THEN cache[pattern]
        ELSE MergePositions(cache[pattern], new_patterns[pattern])]

\* _update_quality_cache, lines 252-255: the entry under the sequence's MD5
\* hex digest is set to its quality scores
UpdateQualityCache(cache, cleaned) ==
    LET digest == md5_hexdigest(CodePoints(cleaned))
    IN  [key \in DOMAIN cache \cup {digest} |->
            IF key = digest THEN _calculate_quality_scores(cleaned)
            ELSE cache[key]]

\* a faulty variant of Process: the caches are updated only for a cleaned
\* text that compress accepts
ProcessValidatingFirst(data) ==
    /\ calls < MaxCalls
    /\ calls' = calls + 1
    /\ op' = "process"
    /\ patterns_cache' =
           IF _validate_sequence(Cleaned(data))
           THEN UpdatePatternsCache(patterns_cache, _find_patterns(Cleaned(data)))
           ELSE patterns_cache
    /\ quality_cache' =
           IF _validate_sequence(Cleaned(data))
           THEN UpdateQualityCache(quality_cache, Cleaned(data))
           ELSE quality_cache
    /\ CompressEnter(Cleaned(data))
    /\ UNCHANGED <<callers, overlapped>>

\* process(data), lines 257-263: _preprocess cleans the text and updates
\* both caches, then the compressor's compress is entered with the cleaned
\* text
Process(data) ==
    /\ calls < MaxCalls
    /\ calls' = calls + 1
    /\ op' = "process"
    /\ patterns_cache' = UpdatePatternsCache(patterns_cache,
                                             _find_patterns(Cleaned(data)))
    /\ quality_cache' = UpdateQualityCache(quality_cache, Cleaned(data))
    /\ CompressEnter(Cleaned(data))
    /\ UNCHANGED <<callers, overlapped>>

\* a caller that uses one pipeline, one process call at a time
PipelineNext ==
    \/ \E data \in PipelineInputs : Process(data)
    \/ Submit
    \/ \E i \in DOMAIN tasks : WorkerStart(i)
    \/ \E i \in DOMAIN tasks : WorkerFinish(i)
    \/ \E i \in DOMAIN tasks : WorkerRaise(i)
    \/ \E i \in DOMAIN tasks : Collect(i)
    \/ \E i \in DOMAIN tasks : CollectRaise(i)
    \/ Unwind
    \/ Merge
    \/ Finish
    \/ Return

PipelineSpec == PipelineInit /\ [][PipelineNext]_vars

(***************************************************************************)
(* process called by several threads on one pipeline                       *)
(***************************************************************************)
\* the texts the threads hand to process: two homopolymers that share the
\* pattern of eight A's, at different positions
ConcurrentInputs ==
    { Rep(<<"A">>, 17), Rep(<<"A">>, 18) }

\* line 254 for each of those texts: the cleaned text paired with the MD5
\* digest of its encoding, the key of its quality cache entry
sequence_hash ==
    { <<Cleaned(data), md5_hexdigest(CodePoints(Cleaned(data)))>> :
        data \in ConcurrentInputs }

\* what lines 232, 244 and 254-255 compute for each of those texts, none of
\* which reads the caches: the cleaned text, the dict new_patterns that
\* _find_patterns returns, the order the loop of line 246 goes through it
\* (the dict's insertion order: by pattern length, then by first start),
\* and the MD5 digest the quality cache entry is set under
Preprocessed ==
    { LET cleaned == Cleaned(data)
          found   == _find_patterns(cleaned)
          rank(p) == (Len(cleaned) + 1) * Len(p) + found[p][1]
      IN  [cleaned      |-> cleaned,
           digest       |-> (CHOOSE e \in sequence_hash : e[1] = cleaned)[2],
           new_patterns |-> found,
           order        |-> [i \in 1..Cardinality(DOMAIN found) |->
                                CHOOSE p \in DOMAIN found :
                                    Cardinality({q \in DOMAIN found :
                                                    rank(q) < rank(p)}) = i - 1]] :
      data \in ConcurrentInputs }

\* thread t calls process(data), lines 257-260, 229-235, 242-244: the text
\* is cleaned, _find_patterns returns new_patterns, and the loop is entered
\* (call is what is computed from data)
CallerEnter(t, call) ==
    /\ callers[t].pc = "idle"
    /\ callers' = [callers EXCEPT ![t] =
           [pc           |-> IF call.order = <<>> THEN "quality" ELSE "check",
            cleaned      |-> call.cleaned,
            digest       |-> call.digest,
            new_patterns |-> call.new_patterns,
            order        |-> call.order,
            at           |-> 1,
            present      |-> FALSE,
            took         |-> <<>>,
            outcome      |-> "none"]]
    /\ overlapped' = (overlapped
                      \/ \E u \in DOMAIN callers :
                             u # t /\ callers[u].pc \notin {"idle", "ended"})
    /\ UNCHANGED <<patterns_cache, quality_cache, calls>>
    /\ UNCHANGED <<chunk_size, compression_stats, op, pc, outcome,
                   stats_at_call, poolVars, compressVars, decompressVars,
                   argument, stats_held>>

\* line 247 in thread t: `if pattern in self.patterns_cache`
CallerCheck(t) ==
    /\ callers[t].pc = "check"
    /\ callers' = [callers EXCEPT
           ![t].pc = "store",
           ![t].present = callers[t].order[callers[t].at] \in DOMAIN patterns_cache]
    /\ UNCHANGED <<patterns_cache, quality_cache, calls, overlapped>>
    /\ UNCHANGED <<chunk_size, compression_stats, op, pc, outcome,
                   stats_at_call, poolVars, compressVars, decompressVars,
                   argument, stats_held>>

\* a faulty variant of CallerStore: the pattern's list is assigned in both
\* branches
CallerStoreAssigning(t) ==
    /\ callers[t].pc = "store"
    /\ LET pattern   == callers[t].order[callers[t].at]
           positions == callers[t].new_patterns[pattern]
       IN  /\ patterns_cache' =
                  [p \in DOMAIN patterns_cache \cup {pattern} |->
                      IF p = pattern THEN positions ELSE patterns_cache[p]]
           /\ callers' = [callers EXCEPT
                  ![t].pc = IF callers[t].at = Len(callers[t].order)
                            THEN "quality" ELSE "check",
                  ![t].at = @ + 1,
                  ![t].took = Append(@, IF callers[t].present THEN "extend"
                                        ELSE "insert")]
    /\ UNCHANGED <<quality_cache, calls, overlapped>>
    /\ UNCHANGED <<chunk_size, compression_stats, op, pc, outcome,
                   stats_at_call, poolVars, compressVars, decompressVars,
                   argument, stats_held>>

\* lines 248-250 in thread t, in the branch the check chose: the list the
\* cache holds now is extended, or the pattern's entry is assigned, whatever
\* the cache holds by now
CallerStore(t) ==
    /\ callers[t].pc = "store"
    /\ LET pattern   == callers[t].order[callers[t].at]
           positions == callers[t].new_patterns[pattern]
       IN  /\ patterns_cache' =
                  [p \in DOMAIN patterns_cache \cup {pattern} |->
                      IF p # pattern THEN patterns_cache[p]
                      ELSE IF callers[t].present
                      THEN MergePositions(patterns_cache[p], positions)
                      ELSE positions]
           /\ callers' = [callers EXCEPT
                  ![t].pc = IF callers[t].at = Len(callers[t].order)
                            THEN "quality" ELSE "check",
                  ![t].at = @ + 1,
                  ![t].took = Append(@, IF callers[t].present THEN "extend"
                                        ELSE "insert")]
    /\ UNCHANGED <<quality_cache, calls, overlapped>>
    /\ UNCHANGED <<chunk_size, compression_stats, op, pc, outcome,
                   stats_at_call, poolVars, compressVars, decompressVars,
                   argument, stats_held>>

\* lines 238 and 252-255 in thread t: the quality cache entry of the cleaned
\* text is set under its digest; the call goes on to line 263
CallerQuality(t) ==
    /\ callers[t].pc = "quality"
    /\ quality_cache' =
           [key \in DOMAIN quality_cache \cup {callers[t].digest} |->
               IF key = callers[t].digest
               THEN _calculate_quality_scores(callers[t].cleaned)
               ELSE quality_cache[key]]
    /\ callers' = [callers EXCEPT ![t].pc = "compress"]
    /\ UNCHANGED <<patterns_cache, calls, overlapped>>
    /\ UNCHANGED <<chunk_size, compression_stats, op, pc, outcome,
                   stats_at_call, poolVars, compressVars, decompressVars,
                   argument, stats_held>>

\* line 263 in thread t: compress, which reads and writes neither cache,
\* ends the call with an exception: ValueError (line 128) for a cleaned
\* text it rejects, TypeError (line 159) otherwise
CallerFinish(t) ==
    /\ callers[t].pc = "compress"
    /\ callers' = [callers EXCEPT
           ![t].pc = "ended",
           ![t].outcome = IF _validate_sequence(callers[t].cleaned)
                          THEN "TypeError" ELSE "InvalidSequence"]
    /\ UNCHANGED <<patterns_cache, quality_cache, calls, overlapped>>
    /\ UNCHANGED <<chunk_size, compression_stats, op, pc, outcome,
                   stats_at_call, poolVars, compressVars, decompressVars,
                   argument, stats_held>>

\* threads that call process on one pipeline without serialization: any
\* thread takes the next step
ConcurrentNext ==
    \/ \E t \in DOMAIN callers : \E call \in Preprocessed : CallerEnter(t, call)
    \/ \E t \in DOMAIN callers : CallerCheck(t)
    \/ \E t \in DOMAIN callers : CallerStore(t)
    \/ \E t \in DOMAIN callers : CallerQuality(t)
    \/ \E t \in DOMAIN callers : CallerFinish(t)

ConcurrentSpec == PipelineInit /\ [][ConcurrentNext]_vars

(***************************************************************************)
(* Properties                                                              *)
(***************************************************************************)
\* a compress call of a valid sequence has ended and no chunk task failed
CompressEnded ==
    /\ op = "compress"
    /\ pc = "done"
    /\ _validate_sequence(genome_data)
    /\ \A k \in DOMAIN tasks : tasks[k] # "failed"

\* C1: round trip.  For every valid sequence s, compress(s) returns a
\* (blob, metadata) pair, and decompress applied to the pair built for s
\* returns exactly s, with one chunk and with several.
C1_RoundTrip ==
    /\ CompressEnded => outcome.kind = "returned"
    /\ (/\ op = "decompress"
        /\ pc = "done"
        /\ handed.origin = "built"
        /\ _validate_sequence(handed.text))
       => outcome = [kind |-> "returned", value |-> handed.text]

\* C2: each successful compress call appends exactly one record to the
\* history, the record's original_size is the length of the input, and the
\* records that were there before are unchanged.
C2_HistoryGrowsByOne ==
    CompressEnded =>
        /\ Len(compression_stats) = Len(stats_at_call) + 1
        /\ compression_stats[Len(compression_stats)].original_size
               = Len(genome_data)
        /\ SubSeq(compression_stats, 1, Len(stats_at_call)) = stats_at_call

\* C3: for every valid input, with one chunk or several, building the stats
\* record completes normally, and the record's error_rate is the mean of
\* the error rates of the call's chunk metadata (its quality_score the mean
\* quality score).
C3_StatsRecordBuilt ==
    (/\ op = "compress"
     /\ pc = "done"
     /\ chunks # <<>>
     /\ Len(metadata_list) = Len(chunks))
    => /\ outcome.kind = "returned"
       /\ compression_stats # <<>>
       /\ compression_stats[Len(compression_stats)].error_rate.num
              * SumRates([k \in 1..Len(metadata_list) |->
                             metadata_list[k].error_rate], 1).den
              * Len(metadata_list)
          = SumRates([k \in 1..Len(metadata_list) |->
                         metadata_list[k].error_rate], 1).num
              * compression_stats[Len(compression_stats)].error_rate.den

\* C4: compress accepts a sequence if and only if it has 100 symbols or
\* more and every symbol is, case-insensitively, one of A, C, G, T, N;
\* every other input fails with InvalidSequence.
C4_AcceptsExactlyTheValid ==
    op = "compress" =>
        ((pc = "done" /\ outcome.kind = "InvalidSequence")
         <=> ~(/\ Len(genome_data) >= MinSequenceLength
               /\ \A k \in 1..Len(genome_data) :
                     UpperChar(genome_data[k]) \in {"A", "C", "G", "T", "N"}))

\* C5: a rejected input fails fast.  An input that validation rejects ends
\* the call with InvalidSequence at once, and then nothing was split, no
\* chunk was handed to the pool or compressed, no buffer or metadata was
\* built, and the history is what it was when the call was entered.
C5_RejectionFailsFast ==
    /\ (op = "compress" /\ ~_validate_sequence(genome_data))
       => (pc = "done" /\ outcome.kind = "InvalidSequence")
    /\ (op = "compress" /\ outcome.kind = "InvalidSequence")
       => /\ pc = "done"
          /\ chunks = <<>>
          /\ tasks = <<>>
          /\ runs = <<>>
          /\ results = <<>>
          /\ completed = <<>>
          /\ compressed_chunks = <<>>
          /\ metadata_list = <<>>
          /\ final_compressed = <<>>
          /\ encoded_text = <<>>
          /\ compression_stats = stats_at_call

\* C5 happens: an input longer than one chunk was rejected
C5_Witness ==
    /\ op = "compress"
    /\ outcome.kind = "InvalidSequence"
    /\ Len(genome_data) > chunk_size

\* C6: the collected lists are in submission order whatever order the tasks
\* ended in.  Position k of the compressed-chunk list and of the metadata
\* list holds what the task of chunk k returned, which is the compression
\* of chunk k (it inflates to the encoding of chunk k, and the metadata
\* carries chunk k's length and the CRC-32 of that encoding); the merged
\* buffer is the concatenation in chunk order.
C6_ResultsInSubmissionOrder ==
    /\ Len(metadata_list) = Len(compressed_chunks)
    /\ Len(compressed_chunks) <= Len(chunks)
    /\ \A k \in 1..Len(compressed_chunks) :
          /\ tasks[k] = "done"
          /\ compressed_chunks[k] = results[k][1]
          /\ metadata_list[k] = results[k][2]
          /\ metadata_list[k].original_length = Len(chunks[k])
          /\ metadata_list[k].checksum = crc32(_encode_sequence(chunks[k]))
          /\ zlib_decompress(compressed_chunks[k])
                 = [kind |-> "ok", data |-> _encode_sequence(chunks[k])]
    /\ pc = "stats"
       => final_compressed
              = Concat([k \in 1..Len(chunks) |-> results[k][1]])

\* C6 happens: every result is collected and merged, the tasks ended in
\* another order than they were submitted in, and the first two results
\* differ
C6_Witness ==
    /\ pc = "stats"
    /\ Len(chunks) >= 2
    /\ completed # [k \in 1..Len(chunks) |-> k]
    /\ compressed_chunks[1] # compressed_chunks[2]

\* C7: a chunk task that raises aborts the call.  No task is started twice;
\* once a task has failed the call never gets to merge; and when the call
\* has ended, what left it is the exception of the first failed task in
\* submission order, nothing is returned, no buffer was merged and the
\* history is what it was when the call was entered, whatever other tasks
\* completed before or after.
C7_WorkerFailureAborts ==
    /\ \A k \in DOMAIN runs : runs[k] <= 1
    /\ (op = "compress" /\ \E k \in DOMAIN tasks : tasks[k] = "failed")
       => /\ pc \in {"submit", "collect", "unwind", "done"}
          /\ final_compressed = <<>>
          /\ encoded_text = <<>>
          /\ compression_stats = stats_at_call
          /\ pc = "done"
             => /\ outcome.kind = "WorkerFailure"
                /\ outcome.value \in DOMAIN tasks
                /\ tasks[outcome.value] = "failed"
                /\ \A j \in 1..(outcome.value - 1) : tasks[j] = "done"

\* C7 happens: the call ended with a task's failure after an earlier result
\* was collected and while a later task had completed
C7_Witness ==
    /\ op = "compress"
    /\ pc = "done"
    /\ outcome.kind = "WorkerFailure"
    /\ Len(compressed_chunks) >= 1
    /\ \E k \in DOMAIN tasks : k > outcome.value /\ tasks[k] = "done"

\* C8: a checksum mismatch aborts decompress.  Whenever the CRC-32 of the
\* chunk just decompressed differs from the checksum of its metadata entry,
\* the call has ended with ChecksumMismatch at that entry, the chunk was
\* not kept, and nothing is returned, however many earlier entries verified.
C8_ChecksumMismatchAborts ==
    (/\ op = "decompress"
     /\ checked >= 1
     /\ crc32(decompressed) # dmetadata[checked].checksum)
    => /\ pc = "done"
       /\ outcome.kind = "ChecksumMismatch"
       /\ entry = checked
       /\ Len(decompressed_chunks) = checked - 1

\* C8 happens: the mismatch is at the second entry or later, after earlier
\* chunks verified
C8_Witness ==
    /\ op = "decompress"
    /\ outcome.kind = "ChecksumMismatch"
    /\ checked >= 2
    /\ Len(decompressed_chunks) >= 1
    /\ crc32(decompressed) # dmetadata[checked].checksum

\* C9: when one byte inside the compressed region of a built blob is
\* changed and the metadata is not, decompress fails with ChecksumMismatch
\* (not with another error, and not by returning).
C9_CorruptionIsChecksumMismatch ==
    (/\ op = "decompress"
     /\ pc = "done"
     /\ handed.origin = "corrupted")
    => outcome.kind = "ChecksumMismatch"

\* C10: for a valid sequence of N symbols and chunk size C, compress splits
\* the sequence into ceil(N / C) chunks and returns a metadata list of that
\* many entries.
C10_ChunkCount ==
    CompressEnded =>
        /\ Len(chunks) = (Len(genome_data) + chunk_size - 1) \div chunk_size
        /\ outcome.kind = "returned"
        /\ Len(outcome.value[2]) = Len(chunks)

RECURSIVE TotalOriginalLength(_, _)
\* the sum of original_length over the entries k.. of a metadata list
TotalOriginalLength(metas, k) ==
    IF k > Len(metas) THEN 0
    ELSE metas[k].original_length + TotalOriginalLength(metas, k + 1)

\* C11: the chunks compress works on are contiguous, non-overlapping slices
\* of the input taken in order (their concatenation is the input), each
\* non-empty and of at most chunk_size symbols, only the last one possibly
\* shorter; and once every result is collected, the original_length values
\* of the metadata list add up to the length of the input.
C11_ChunksPartitionInput ==
    /\ (op = "compress" /\ _validate_sequence(genome_data))
       => /\ chunks # <<>>
          /\ Concat(chunks) = genome_data
          /\ \A k \in 1..Len(chunks) :
                /\ Len(chunks[k]) >= 1
                /\ Len(chunks[k]) <= chunk_size
                /\ k < Len(chunks) => Len(chunks[k]) = chunk_size
                /\ chunks[k] = Slice(genome_data, (k - 1) * chunk_size,
                                     k * chunk_size)
    /\ (op = "compress" /\ pc = "stats")
       => /\ Len(metadata_list) = Len(chunks)
          /\ TotalOriginalLength(metadata_list, 1) = Len(genome_data)

\* C11 happens: three chunks, the last one shorter, every result collected
C11_Witness ==
    /\ op = "compress"
    /\ pc = "stats"
    /\ Len(chunks) = 3
    /\ Len(chunks[3]) < chunk_size
    /\ Len(metadata_list) = 3

\* C12: in every pattern map _find_patterns returns, each key has between 8
\* and 32 symbols, is a substring of the sequence at each of its recorded
\* starts, and has at least 3 recorded starts; no key with 2 or fewer is
\* retained.
C12_PatternKeysBounded ==
    (op = "_find_patterns" /\ pc = "done")
    => /\ outcome.kind = "returned"
       /\ \A pattern \in DOMAIN outcome.value :
             /\ Len(pattern) >= min_pattern_length
             /\ Len(pattern) <= max_pattern_length
             /\ Len(outcome.value[pattern]) >= 3
             /\ \A k \in 1..Len(outcome.value[pattern]) :
                   Window(argument, outcome.value[pattern][k], Len(pattern))
                       = pattern

\* C12 happens: a map was returned with a key of exactly 3 recorded starts
\* and a key longer than the shortest
C12_Witness ==
    /\ op = "_find_patterns"
    /\ pc = "done"
    /\ \E pattern \in DOMAIN outcome.value : Len(outcome.value[pattern]) = 3
    /\ \E pattern \in DOMAIN outcome.value : Len(pattern) > min_pattern_length

\* s is ACGT repeated k times for some k >= least
IsAcgtRepeat(s, least) ==
    /\ Len(s) % 4 = 0
    /\ Len(s) >= 4 * least
    /\ s = Rep(<<"A", "C", "G", "T">>, Len(s) \div 4)

\* test_find_patterns' expression "ACGT" in ''.join(patterns.keys()): the
\* keys joined in the order the dict holds them (that of their first
\* append at line 98: by length, then by first start) contain the text ACGT
AcgtInJoinedKeys(patterns) ==
    LET keys == DOMAIN patterns
        earlier(q, p) == \/ Len(q) < Len(p)
                         \/ Len(q) = Len(p) /\ patterns[q][1] < patterns[p][1]
        ordered == [i \in 1..Cardinality(keys) |->
                       CHOOSE p \in keys :
                           Cardinality({q \in keys : earlier(q, p)}) = i - 1]
    IN  Occurrences(Concat(ordered), <<"A", "C", "G", "T">>) # <<>>

\* C13: for ACGT repeated 1000 times, and for ACGT repeated k times for
\* every k from 5 to MaxRepeats, _find_patterns returns a pattern that
\* contains ACGT with more than 2 recorded starts, and
\* _is_highly_repetitive returns true.
C13_PeriodicIsRepetitive ==
    (pc = "done" /\ IsAcgtRepeat(argument, 5))
    => /\ op = "_find_patterns"
          => \E pattern \in DOMAIN outcome.value :
                /\ Occurrences(pattern, <<"A", "C", "G", "T">>) # <<>>
                /\ Len(outcome.value[pattern]) > 2
       /\ op = "_is_highly_repetitive" => outcome.value = TRUE

\* C13 happens: _is_highly_repetitive returned true for ACGT repeated 1000
\* times
C13_Witness ==
    /\ op = "_is_highly_repetitive"
    /\ pc = "done"
    /\ Len(argument) = 4000
    /\ IsAcgtRepeat(argument, 1000)
    /\ outcome.value = TRUE

\* C14: for ACGT repeated k times, k >= 4 (16 symbols in the test),
\* _find_patterns returns a non-empty map in which some key contains ACGT,
\* so that the joined keys contain it, as test_find_patterns asserts.
C14_FindsAcgtFromFourRepeats ==
    (op = "_find_patterns" /\ pc = "done" /\ IsAcgtRepeat(argument, 4))
    => /\ DOMAIN outcome.value # {}
       /\ \E pattern \in DOMAIN outcome.value :
              Occurrences(pattern, <<"A", "C", "G", "T">>) # <<>>
       /\ AcgtInJoinedKeys(outcome.value)

\* the sequence is made of the bases A, C, G, T only
OverAcgt(s) == \A k \in 1..Len(s) : s[k] \in {"A", "C", "G", "T"}

\* C15 as stated: for every sequence of n bases over A, C, G, T the buffer
\* _encode_sequence returns has at most n/4 + 1 bytes.
C15_EncodedWithinQuarter ==
    (op = "_encode_sequence" /\ pc = "done" /\ OverAcgt(argument))
    => /\ outcome.kind = "returned"
       /\ 4 * Len(outcome.value) <= Len(argument) + 4

\* a process call whose cleaned text is valid has ended and no chunk task
\* failed
ProcessEnded ==
    /\ op = "process"
    /\ pc = "done"
    /\ _validate_sequence(genome_data)
    /\ \A k \in DOMAIN tasks : tasks[k] # "failed"

\* C16: process called on a text that is valid after cleaning returns a
\* (blob, metadata) pair in which every chunk's metadata entry carries both
\* cached_patterns and quality_cache.
C16_ProcessStampsCaches ==
    ProcessEnded =>
        /\ outcome.kind = "returned"
        /\ Len(outcome.value[2]) = Len(chunks)
        /\ \A k \in 1..Len(outcome.value[2]) :
              {"cached_patterns", "quality_cache"}
                  \subseteq DOMAIN outcome.value[2][k]

\* C17: what process stamps on the metadata it returns is a snapshot: each
\* entry's cached_patterns and quality_cache are copies holding what the
\* caches hold when the call returns (values of their own, which no later
\* call can change), not the pipeline's cache objects.
C17_StampIsSnapshot ==
    ProcessEnded =>
        /\ outcome.kind = "returned"
        /\ \A k \in 1..Len(outcome.value[2]) :
              /\ outcome.value[2][k].cached_patterns = patterns_cache
              /\ outcome.value[2][k].quality_cache = quality_cache

\* C18: the caches never shrink.  In every step the key sets of
\* patterns_cache and quality_cache only grow, and the positions list of
\* every pattern already cached is a prefix of its list after the step.
C18_CachesOnlyGrow ==
    [][/\ DOMAIN patterns_cache \subseteq DOMAIN patterns_cache'
       /\ DOMAIN quality_cache \subseteq DOMAIN quality_cache'
       /\ \A pattern \in DOMAIN patterns_cache :
             /\ Len(patterns_cache[pattern]) <= Len(patterns_cache'[pattern])
             /\ SubSeq(patterns_cache'[pattern], 1,
                       Len(patterns_cache[pattern]))
                    = patterns_cache[pattern]]_vars

\* C18 happens: after ACGTACGT x 10 and then ACGTACGT x 5 were processed
\* (two digests cached), a cached key containing ACGTACGT holds the
\* positions of the first call followed by those of the second
C18_Witness ==
    /\ calls = 2
    /\ pc = "idle"
    /\ Cardinality(DOMAIN quality_cache) = 2
    /\ \E pattern \in DOMAIN patterns_cache :
          /\ Occurrences(pattern, <<"A", "C", "G", "T", "A", "C", "G", "T">>) # <<>>
          /\ \E k \in 1..(Len(patterns_cache[pattern]) - 1) :
                /\ patterns_cache[pattern][k] = 64
                /\ patterns_cache[pattern][k + 1] = 0

\* C19: get_compression_stats returns a read-only snapshot.  Whatever the
\* caller does between calls to a list it was returned (adding or removing
\* a record), the history the compressor holds, which a later
\* get_compression_stats returns, stays as it was.
C19_StatsAreSnapshot ==
    [][(pc = "idle" /\ pc' = "idle")
       => compression_stats' = compression_stats]_vars

\* C20: case is normalized before encoding.  For every chunk of an accepted
\* sequence, the compressed bytes and the metadata (checksum,
\* quality_scores, patterns, error_rate) are those of the upper-cased chunk.
C20_CaseNormalized ==
    \A k \in DOMAIN tasks :
        (op = "compress" /\ tasks[k] = "done")
        => results[k] = _compress_chunk(Upper(chunks[k]))

\* C21: for a sequence of n symbols the buffer _encode_sequence returns has
\* ceil(10n/8) bytes holding, from the most significant bit of the first
\* byte on, the 2n base bits in sequence order, then the n quality scores
\* as 8-bit fields in positional order; the zero padding bits, if any, are
\* the trailing low-order bits of the final byte.
C21_EncodeLayout ==
    (op = "_encode_sequence" /\ pc = "done" /\ outcome.kind = "returned")
    => LET n      == Len(argument)
           scores == _calculate_quality_scores(argument)
           bit(j) ==
               IF j <= 2 * n
               THEN BaseBits(UpperChar(argument[(j + 1) \div 2]))[((j - 1) % 2) + 1]
               ELSE IF j <= 10 * n
               THEN Bits8(scores[((j - 2 * n - 1) \div 8) + 1])[((j - 2 * n - 1) % 8) + 1]
               ELSE 0
           nbytes == (10 * n + 7) \div 8
       IN  outcome.value =
               [k \in 1..nbytes |->
                   bit(8 * k - 7) * 128 + bit(8 * k - 6) * 64
                   + bit(8 * k - 5) * 32 + bit(8 * k - 4) * 16
                   + bit(8 * k - 3) * 8 + bit(8 * k - 2) * 4
                   + bit(8 * k - 1) * 2 + bit(8 * k)]

\* C22 as stated: for every sequence s the buffer _encode_sequence returns
\* for s equals the buffer it returns for s with every N replaced by A.
C22_NEncodesAsA ==
    (op = "_encode_sequence" /\ pc = "done" /\ outcome.kind = "returned")
    => outcome.value =
           _encode_sequence([k \in 1..Len(argument) |->
                                IF argument[k] = "N" THEN "A" ELSE argument[k]])

\* C22 amended: the buffers for s and for s with every N replaced by A have
\* the same length and the same 2n base bits (N and A both encode as 00);
\* the whole buffers are equal exactly when the quality scores of the two
\* sequences are equal, which they need not be: the scores are taken from
\* the symbols as given, and replacing N by A can create or extend a run.
C22_NBaseBitsAsA ==
    (op = "_encode_sequence" /\ pc = "done" /\ outcome.kind = "returned")
    => LET n     == Len(argument)
           t     == [k \in 1..n |-> IF argument[k] = "N" THEN "A" ELSE argument[k]]
           other == _encode_sequence(t)
           pad   == 8 * Len(outcome.value) - 10 * n
           bit(buf, j) == (buf[((j - 1) \div 8) + 1] \div (2 ^ (7 - ((j - 1) % 8)))) % 2
       IN  /\ Len(other) = Len(outcome.value)
           /\ \A j \in 1..(2 * n) :
                  bit(outcome.value, pad + j) = bit(other, pad + j)
           /\ (outcome.value = other)
                  <=> (_calculate_quality_scores(argument)
                          = _calculate_quality_scores(t))

\* C22 happens: a sequence with an N was encoded, and the buffer differs
\* from the buffer of the sequence with A in place of N
C22_Witness ==
    /\ op = "_encode_sequence"
    /\ pc = "done"
    /\ outcome.kind = "returned"
    /\ \E k \in 1..Len(argument) : argument[k] = "N"
    /\ outcome.value #
           _encode_sequence([k \in 1..Len(argument) |->
                                IF argument[k] = "N" THEN "A" ELSE argument[k]])

\* C23: _find_patterns is exhaustive. For every window length L in 8..32 and
\* every start i with 0 <= i <= len - L (the last window included), i is
\* recorded under the window's text exactly when that text occurs more than
\* once in the sequence, overlapping occurrences counted; so the starts
\* recorded under a text are all its occurrences, and the result is exactly
\* the texts with more than 2 of them, each mapped to them in increasing
\* order.
C23_FindPatternsExhaustive ==
    (op = "_find_patterns" /\ pc = "done")
    => LET windows ==
               UNION {{Window(argument, i, length) :
                          i \in 0..(Len(argument) - length)} :
                      length \in min_pattern_length..max_pattern_length}
           recorded(w) ==
               LET occ == Occurrences(argument, w)
               IN  IF Len(occ) > 1 THEN {occ[k] : k \in 1..Len(occ)} ELSE {}
       IN  /\ DOMAIN outcome.value =
                  {w \in windows : Cardinality(recorded(w)) > 2}
           /\ \A w \in DOMAIN outcome.value :
                  /\ {outcome.value[w][k] : k \in 1..Len(outcome.value[w])}
                         = recorded(w)
                  /\ \A k \in 2..Len(outcome.value[w]) :
                         outcome.value[w][k - 1] < outcome.value[w][k]

\* C24: _calculate_quality_scores returns one score for each position of the
\* sequence; the score at position i (from 0) is min(40, 30 + 5 if i > 0 and
\* s[i] = s[i-1], + 3 if i > 1 and s[i] = s[i-2]); every score lies in 0..40
\* and depends only on the symbols at i-2, i-1 and i: it is the last score
\* of those symbols taken as a sequence of their own.
C24_QualityScores ==
    (op = "_calculate_quality_scores" /\ pc = "done")
    => /\ outcome.kind = "returned"
       /\ Len(outcome.value) = Len(argument)
       /\ \A p \in 1..Len(argument) :
              LET i      == p - 1
                  s      == [k \in 0..(Len(argument) - 1) |-> argument[k + 1]]
                  bonus5 == IF i > 0 /\ s[i] = s[i - 1] THEN 5 ELSE 0
                  bonus3 == IF i > 1 /\ s[i] = s[i - 2] THEN 3 ELSE 0
                  sum    == 30 + bonus5 + bonus3
                  local  == SubSeq(argument, IF p > 2 THEN p - 2 ELSE 1, p)
              IN  /\ outcome.value[p] = (IF sum < 40 THEN sum ELSE 40)
                  /\ outcome.value[p] \in 0..40
                  /\ outcome.value[p]
                         = _calculate_quality_scores(local)[Len(local)]

\* C24 happens: the scores of a sequence were taken in which one symbol has
\* both bonuses, one only the predecessor's, one only the bonus of the
\* symbol two places back, and one at position 2 or later has none
C24_Witness ==
    /\ op = "_calculate_quality_scores"
    /\ pc = "done"
    /\ \E p \in 1..Len(outcome.value) : outcome.value[p] = 38
    /\ \E p \in 1..Len(outcome.value) : outcome.value[p] = 35
    /\ \E p \in 1..Len(outcome.value) : outcome.value[p] = 33
    /\ \E p \in 3..Len(outcome.value) : outcome.value[p] = 30

\* C25: the checksum in a chunk's metadata is the CRC-32 of the encoded
\* buffer before compression: decompressing exactly the compressed bytes
\* _compress_chunk returned and taking the CRC-32 gives the stored checksum.
\* So decompress never ends with a checksum mismatch when it is handed what
\* was built from the chunks, untampered.
C25_ChecksumOfEncoded ==
    /\ \A k \in DOMAIN tasks :
          (op = "compress" /\ tasks[k] = "done")
          => LET z == zlib_decompress(results[k][1])
             IN  /\ results[k][2].checksum = crc32(_encode_sequence(chunks[k]))
                 /\ z.kind = "ok"
                 /\ crc32(z.data) = results[k][2].checksum
    /\ (op = "decompress" /\ handed.origin \in {"built", "length"})
       => outcome.kind # "ChecksumMismatch"

\* C25 happens: decompress was handed two untampered chunks, decompressed
\* exactly the bytes of each and found both checksums to match
C25_Witness ==
    /\ op = "decompress"
    /\ handed.origin = "length"
    /\ pc = "done"
    /\ checked = 2
    /\ Len(decompressed_chunks) = 2
    /\ outcome.kind # "ChecksumMismatch"

C27_ScoresNeverLow ==
    /\ \A k \in DOMAIN tasks :
          (op = "compress" /\ tasks[k] = "done")
          => \A p \in DOMAIN results[k][2].quality_scores :
                 results[k][2].quality_scores[p] \in {30, 33, 35, 38}
    /\ (op = "decompress" /\ handed.origin \in {"built", "corrupted"})
       => /\ warnings = <<>>
          /\ \A k \in DOMAIN dmetadata :
                 \A p \in DOMAIN dmetadata[k].quality_scores :
                     dmetadata[k].quality_scores[p] \in {30, 33, 35, 38}

\* C27 happens: decompress verified the checksum of a chunk built by
\* compress whose scores include a bonus, went through the quality test and
\* kept the chunk without a warning
C27_Witness ==
    /\ op = "decompress"
    /\ handed.origin = "built"
    /\ Len(decompressed_chunks) >= 1
    /\ \E p \in DOMAIN dmetadata[1].quality_scores :
          dmetadata[1].quality_scores[p] = 35
    /\ warnings = <<>>

\* C28: _encode_sequence is injective on the non-empty sequences over A, C,
\* G, T: the buffer determines the sequence. Its length ceil(10n/8)
\* determines n, and the 2n base bits, read back two by two, are the
\* symbols; so no other sequence, of the same or of another length, has the
\* same buffer (compared directly with every other sequence of at most
\* MaxBases bases).
C28_EncodeInjective ==
    (/\ op = "_encode_sequence"
     /\ pc = "done"
     /\ argument # <<>>
     /\ OverAcgt(argument))
    => LET buf    == outcome.value
           n      == (8 * Len(buf)) \div 10
           pad    == 8 * Len(buf) - 10 * n
           bit(j) == (buf[((j - 1) \div 8) + 1] \div (2 ^ (7 - ((j - 1) % 8)))) % 2
           symbol(k) ==
               <<"A", "C", "G", "T">>[2 * bit(pad + 2 * k - 1) + bit(pad + 2 * k) + 1]
       IN  /\ outcome.kind = "returned"
           /\ n = Len(argument)
           /\ [k \in 1..n |-> symbol(k)] = argument
           /\ \A t \in SeqsUpTo({"A", "C", "G", "T"}, MaxBases) :
                  (t # <<>> /\ t # argument) => _encode_sequence(t) # buf

\* C28 happens: a sequence of three different bases among A, C, G, T (its
\* 30 bits do not fill whole bytes) was encoded
C28_Witness ==
    /\ op = "_encode_sequence"
    /\ pc = "done"
    /\ OverAcgt(argument)
    /\ Len(argument) = 3
    /\ Cardinality({argument[k] : k \in 1..Len(argument)}) = 3
    /\ outcome.kind = "returned"

\* C29: process updates both caches before the cleaned text is validated.
\* After a process call that failed with InvalidSequence (the cleaned text
\* is empty or shorter than 100 symbols), the quality cache holds the
\* cleaned text's quality scores under its MD5 digest, and the pattern cache
\* holds, for every pattern found in the cleaned text, that call's positions
\* at the end of the pattern's list.
C29_RejectedInputIsCached ==
    (op = "process" /\ pc = "done" /\ outcome.kind = "InvalidSequence")
    => LET digest == md5_hexdigest(CodePoints(genome_data))
           found  == _find_patterns(genome_data)
       IN  /\ Len(genome_data) < MinSequenceLength
           /\ digest \in DOMAIN quality_cache
           /\ quality_cache[digest] = _calculate_quality_scores(genome_data)
           /\ \A pattern \in DOMAIN found :
                  /\ pattern \in DOMAIN patterns_cache
                  /\ Len(patterns_cache[pattern]) >= Len(found[pattern])
                  /\ SubSeq(patterns_cache[pattern],
                            Len(patterns_cache[pattern]) - Len(found[pattern]) + 1,
                            Len(patterns_cache[pattern])) = found[pattern]

\* C29 happens: the first process call of a pipeline was rejected for a
\* cleaned text of 80 symbols, and both caches are no longer empty
C29_Witness ==
    /\ op = "process"
    /\ pc = "done"
    /\ calls = 1
    /\ outcome.kind = "InvalidSequence"
    /\ Len(genome_data) = 80
    /\ DOMAIN patterns_cache # {}
    /\ DOMAIN quality_cache # {}

\* C30: when process calls run at the same time on one pipeline, the check
\* and the insert of _update_patterns_cache can interleave so that for a
\* pattern new to the cache and found by two calls one call's positions are
\* overwritten by the other's: the cache then holds fewer positions under
\* the pattern than the calls that are past it have contributed. This
\* happens only when a call was entered while another was running (never
\* when the calls are serialized) and only to a pattern for which two calls
\* took the insert branch.
C30_LostUpdateOnlyWhenInterleaved ==
    \A pattern \in DOMAIN patterns_cache :
        LET past(t) == {k \in 1..Len(callers[t].took) :
                           callers[t].order[k] = pattern}
            contributed ==
                UNION {{<<t, i>> : i \in 1..Len(callers[t].new_patterns[pattern])} :
                       t \in {u \in DOMAIN callers : past(u) # {}}}
            inserted ==
                {t \in DOMAIN callers :
                    \E k \in past(t) : callers[t].took[k] = "insert"}
        IN  /\ Len(patterns_cache[pattern]) <= Cardinality(contributed)
            /\ Len(patterns_cache[pattern]) < Cardinality(contributed)
               => /\ overlapped
                  /\ Cardinality(inserted) >= 2

\* C30 happens: two calls have ended that both found AAAAAAAA, one at 9
\* positions and one at 10, and the cache holds the 9 positions of the one
\* only
C30_Witness ==
    /\ \A t \in 1..2 : callers[t].pc = "ended"
    /\ callers[1].cleaned # callers[2].cleaned
    /\ \A t \in 1..2 :
          Rep(<<"A">>, 8) \in DOMAIN callers[t].new_patterns
    /\ Len(patterns_cache[Rep(<<"A">>, 8)]) = 9

=============================================================================
